---- MODULE Spec2Model ----
(***************************************************************************)
(* Model of the load-balancer simulation: Firewall (firewall.cpp),         *)
(* WebServer (webServer.cpp), LoadBalancer (loadBalancer.cpp), Switch      *)
(* (switch.cpp) and main (main.cpp).                                       *)
(*                                                                         *)
(* Representation choices:                                                 *)
(*  - a std::string is a sequence of one-character strings;                *)
(*  - a 32-bit unsigned int that holds an address or a mask is the tuple   *)
(*    of its four bytes, most significant first (TLC integers are 32-bit   *)
(*    signed, so 2^32-1 is not representable as one number);               *)
(*  - a Request carries a model-only field uid, the identity of the object *)
(*    the generator created; copies of a request keep its uid.             *)
(***************************************************************************)
EXTENDS Integers, Sequences, FiniteSets, TLC

\* ------------------------------------------------------------------------
\* Bounds of the model
\* ------------------------------------------------------------------------

\* Largest number of filterRequests calls / runCycle calls / ticks explored.
MaxTicks == 2

\* Largest number of blockRange calls explored in SpecConfig.
MaxRanges == 2

\* Largest burst handed to one filterRequests call with mixed sources.
MaxBurst == 2

\* Largest burst of requests that all come from one source.
FloodLen == 7

\* Largest processing time of a generated request (maxProcessTime of the
\* configuration).
MaxProcessTime == 2

\* Largest number of servers a pool is constructed with (initialServers of
\* the configuration).
MaxServers == 2

\* Length of the long initial queue a pool can be constructed with.
LongQueue == 9

\* Requests main puts in each initial queue per initial server; main uses
\* 100, the model a smaller factor.
PrefillFactor == 1

\* ------------------------------------------------------------------------
\* Strings and number parsing (std::string, std::stoi, std::stoul)
\* ------------------------------------------------------------------------

Digit == {"0", "1", "2", "3", "4", "5", "6", "7", "8", "9"}

DigitVal(c) ==
    CASE c = "0" -> 0 [] c = "1" -> 1 [] c = "2" -> 2 [] c = "3" -> 3
      [] c = "4" -> 4 [] c = "5" -> 5 [] c = "6" -> 6 [] c = "7" -> 7
      [] c = "8" -> 8 [] c = "9" -> 9

\* Value of the longest run of digits of s starting at position i, given the
\* value acc of the digits read so far (the digit loop of strtol/strtoul).
\* The strings of the model have at most four digits in a row, so the
\* value stays far below the overflow of either conversion.
RECURSIVE DigitRun(_, _, _)
DigitRun(s, i, acc) ==
    IF i > Len(s) \/ s[i] \notin Digit
    THEN acc
    ELSE DigitRun(s, i + 1, acc * 10 + DigitVal(s[i]))

\* Position of the first digit that a conversion of s would read: after an
\* optional sign. 0 when there is no digit there (the conversion throws
\* std::invalid_argument).
FirstDigit(s) ==
    LET start == IF Len(s) >= 1 /\ s[1] \in {"-", "+"} THEN 2 ELSE 1
    IN  IF start <= Len(s) /\ s[start] \in Digit THEN start ELSE 0

\* std::stoi(s): [ok |-> FALSE] when it throws, else the value.
Stoi(s) ==
    IF FirstDigit(s) = 0
    THEN [ok |-> FALSE, val |-> 0]
    ELSE LET mag == DigitRun(s, FirstDigit(s), 0)
         IN  [ok |-> TRUE, val |-> IF s[1] = "-" THEN 0 - mag ELSE mag]

\* unsigned int val = std::stoul(s): [ok |-> FALSE] when it throws. stoul
\* negates a "-" value modulo 2^64 and the assignment keeps the low 32 bits,
\* so "-k" with 0 < k <= 9999 yields 2^32 - k, which is above 255; the model
\* keeps only what the caller reads: the value when it is at most 255, and
\* 256 for every larger value.
StoulSat(s) ==
    IF FirstDigit(s) = 0
    THEN [ok |-> FALSE, val |-> 0]
    ELSE LET mag == DigitRun(s, FirstDigit(s), 0)
         IN  [ok |-> TRUE,
              val |-> IF s[1] = "-" /\ mag > 0 THEN 256
                      ELSE IF mag > 255 THEN 256 ELSE mag]

\* Index of the first occurrence of character c in s at or after i, 0 if none
\* (std::string::find, npos as 0).
RECURSIVE FindFrom(_, _, _)
FindFrom(s, c, i) ==
    IF i > Len(s) THEN 0
    ELSE IF s[i] = c THEN i
    ELSE FindFrom(s, c, i + 1)

\* The tokens std::getline(ss, octet, '.') yields from s, in order: the
\* pieces between dots; a final empty piece is not produced (getline fails
\* at end of input when it extracts nothing).
RECURSIVE GetlineTokens(_)
GetlineTokens(s) ==
    IF s = <<>> THEN <<>>
    ELSE LET d == FindFrom(s, ".", 1)
         IN  IF d = 0 THEN <<s>>
             ELSE <<SubSeq(s, 1, d - 1)>> \o GetlineTokens(SubSeq(s, d + 1, Len(s)))

\* ------------------------------------------------------------------------
\* 32-bit values as four bytes
\* ------------------------------------------------------------------------

Pow2(n) ==
    CASE n = 0 -> 1 [] n = 1 -> 2 [] n = 2 -> 4 [] n = 3 -> 8 [] n = 4 -> 16
      [] n = 5 -> 32 [] n = 6 -> 64 [] n = 7 -> 128 [] n = 8 -> 256

\* Bitwise AND of two bytes, bit by bit from the least significant.
RECURSIVE And8(_, _, _)
And8(a, b, n) ==
    IF n = 0 THEN 0
    ELSE (IF a % 2 = 1 /\ b % 2 = 1 THEN 1 ELSE 0)
         + 2 * And8(a \div 2, b \div 2, n - 1)

\* a & b on bytes; a & 0 and a & 0xFF need no bit loop.
AndByte(a, b) ==
    IF b = 0 THEN 0 ELSE IF b = 255 THEN a ELSE And8(a, b, 8)

\* x & y on 32-bit values
And32(x, y) == <<AndByte(x[1], y[1]), AndByte(x[2], y[2]),
                 AndByte(x[3], y[3]), AndByte(x[4], y[4])>>

Zero32 == <<0, 0, 0, 0>>

\* ~0u << k for 0 <= k <= 31: thirty-two one-bits with the low k cleared.
\* Byte i (1 = most significant) covers bits 8*(4-i) .. 8*(4-i)+7.
ShlOnes(k) ==
    [i \in 1..4 |->
        LET low == 8 * (4 - i)
            cleared == IF k <= low THEN 0 ELSE IF k >= low + 8 THEN 8 ELSE k - low
        IN  256 - Pow2(cleared)]

\* ------------------------------------------------------------------------
\* Firewall (firewall.cpp)
\* ------------------------------------------------------------------------

\* Firewall::Firewall(dosRateLimit, dosWindowSize). blockedRanges and
\* autoBlockedIps are vectors, ipRequestCount is a map: a function whose
\* domain is the set of keys present.
NewFirewall(rateLimit, windowSize) ==
    [blockedRanges  |-> <<>>,
     ipRequestCount |-> [k \in {} |-> 0],
     autoBlockedIps |-> <<>>,
     dosRateLimit   |-> rateLimit,
     dosWindowSize  |-> windowSize,
     totalBlocked   |-> 0]

\* The while loop of Firewall::ipToUint over the getline tokens: token n is
\* packed at shift 24 - 8*(n-1); the loop ends at the end of the tokens or
\* when shift has dropped below 0 (after four tokens); a token stoul rejects,
\* or one above 255, makes the function return 0.
RECURSIVE IpToUintLoop(_, _, _)
IpToUintLoop(tokens, n, result) ==
    IF n > Len(tokens) \/ n > 4
    THEN result
    ELSE LET v == StoulSat(tokens[n])
         IN  IF ~v.ok \/ v.val > 255
             THEN Zero32
             ELSE IpToUintLoop(tokens, n + 1, [result EXCEPT ![n] = v.val])

\* Firewall::ipToUint
IpToUint(ip) == IpToUintLoop(GetlineTokens(ip), 1, Zero32)

\* PrefixMask shifting by the prefix length instead of the host length (the
\* shift count taken modulo 32).
PrefixMaskShiftByPrefix(prefix) ==
    IF prefix = 0 THEN Zero32 ELSE ShlOnes(prefix % 32)

\* PrefixMask without the prefix == 0 case, the shift count taken modulo 32
\* as the x86 shift instruction does: prefix 0 then yields the full mask.
PrefixMaskNoZeroCase(prefix) == ShlOnes((32 - prefix) % 32)

\* The mask expression of Firewall::blockRange:
\* (prefix == 0) ? 0u : (~0u << (32 - prefix))
PrefixMask(prefix) == IF prefix = 0 THEN Zero32 ELSE ShlOnes(32 - prefix)

\* blockRange storing the address as written, host bits included.
BlockRangeKeepHostBits(fw, cidr) ==
    LET slash == FindFrom(cidr, "/", 1)
        ipPart == SubSeq(cidr, 1, slash - 1)
        prefixPart == SubSeq(cidr, slash + 1, Len(cidr))
        prefix == Stoi(prefixPart)
    IN  IF slash = 0 THEN fw
        ELSE IF ~prefix.ok THEN fw
        ELSE IF prefix.val < 0 \/ prefix.val > 32 THEN fw
        ELSE LET range == [network |-> IpToUint(ipPart),
                           mask    |-> PrefixMask(prefix.val),
                           label   |-> cidr]
             IN  [fw EXCEPT !.blockedRanges = Append(@, range)]

\* Firewall::blockRange: the firewall after the call.
BlockRange(fw, cidr) ==
    LET slash == FindFrom(cidr, "/", 1)
        ipPart == SubSeq(cidr, 1, slash - 1)
        prefixPart == SubSeq(cidr, slash + 1, Len(cidr))
        prefix == Stoi(prefixPart)
    IN  IF slash = 0 THEN fw
        ELSE IF ~prefix.ok THEN fw
        ELSE IF prefix.val < 0 \/ prefix.val > 32 THEN fw
        ELSE LET network == IpToUint(ipPart)
                 mask == PrefixMask(prefix.val)
                 range == [network |-> And32(network, mask),
                           mask    |-> mask,
                           label   |-> cidr]
             IN  [fw EXCEPT !.blockedRanges = Append(@, range)]

\* Firewall::isInBlockedRange
IsInBlockedRange(fw, ip) ==
    LET ipInt == IpToUint(ip)
    IN  \E r \in 1..Len(fw.blockedRanges) :
            And32(ipInt, fw.blockedRanges[r].mask) = fw.blockedRanges[r].network

\* Firewall::isAutoBlocked
IsAutoBlocked(fw, ip) ==
    \E k \in 1..Len(fw.autoBlockedIps) : fw.autoBlockedIps[k] = ip

\* ipRequestCount[srcIp]++ : operator[] inserts a missing key with value 0.
CountIncrement(counts, ip) ==
    IF ip \in DOMAIN counts
    THEN [counts EXCEPT ![ip] = @ + 1]
    ELSE [k \in DOMAIN counts \cup {ip} |-> IF k = ip THEN 1 ELSE counts[k]]

\* WindowReset that also forgets the auto-blocked sources.
WindowResetClearsBans(fw, clock) ==
    IF fw.dosWindowSize > 0 /\ clock % fw.dosWindowSize = 0 /\ clock # 0
    THEN [fw EXCEPT !.ipRequestCount = [k \in {} |-> 0], !.autoBlockedIps = <<>>]
    ELSE fw

\* WindowReset that starts a new window at every clock value but 0.
WindowResetEveryTick(fw, clock) ==
    IF fw.dosWindowSize > 0 /\ clock # 0
    THEN [fw EXCEPT !.ipRequestCount = [k \in {} |-> 0]]
    ELSE fw

\* The window reset at the head of Firewall::filterRequests.
WindowReset(fw, clock) ==
    IF fw.dosWindowSize > 0 /\ clock % fw.dosWindowSize = 0 /\ clock # 0
    THEN [fw EXCEPT !.ipRequestCount = [k \in {} |-> 0]]
    ELSE fw

\* FilterOne with the rate test written >= : the request that reaches the
\* limit is already dropped.
FilterOneOffByOne(st, req) ==
    LET fw == st.fw
        srcIp == req.IPin
    IN  IF IsInBlockedRange(fw, srcIp)
        THEN [st EXCEPT !.fw.totalBlocked = @ + 1]
        ELSE IF IsAutoBlocked(fw, srcIp)
        THEN [st EXCEPT !.fw.totalBlocked = @ + 1]
        ELSE LET counted == [fw EXCEPT !.ipRequestCount = CountIncrement(@, srcIp)]
                 n == counted.ipRequestCount[srcIp]
             IN  IF n >= fw.dosRateLimit
                 THEN [st EXCEPT !.fw =
                          [counted EXCEPT
                              !.autoBlockedIps =
                                  IF n = fw.dosRateLimit THEN Append(@, srcIp) ELSE @,
                              !.totalBlocked = @ + 1]]
                 ELSE [fw |-> counted, allowed |-> Append(st.allowed, req)]

\* FilterOne inserting an admitted request at the front of the result.
FilterOnePrepend(st, req) ==
    LET fw == st.fw
        srcIp == req.IPin
    IN  IF IsInBlockedRange(fw, srcIp)
        THEN [st EXCEPT !.fw.totalBlocked = @ + 1]
        ELSE IF IsAutoBlocked(fw, srcIp)
        THEN [st EXCEPT !.fw.totalBlocked = @ + 1]
        ELSE LET counted == [fw EXCEPT !.ipRequestCount = CountIncrement(@, srcIp)]
                 n == counted.ipRequestCount[srcIp]
             IN  IF n > fw.dosRateLimit
                 THEN [st EXCEPT !.fw =
                          [counted EXCEPT
                              !.autoBlockedIps =
                                  IF n = fw.dosRateLimit + 1 THEN Append(@, srcIp) ELSE @,
                              !.totalBlocked = @ + 1]]
                 ELSE [fw |-> counted, allowed |-> <<req>> \o st.allowed]

\* FilterOne without the totalBlocked++ of the auto-block branch.
FilterOneUncountedBan(st, req) ==
    LET fw == st.fw
        srcIp == req.IPin
    IN  IF IsInBlockedRange(fw, srcIp)
        THEN [st EXCEPT !.fw.totalBlocked = @ + 1]
        ELSE IF IsAutoBlocked(fw, srcIp)
        THEN st
        ELSE LET counted == [fw EXCEPT !.ipRequestCount = CountIncrement(@, srcIp)]
                 n == counted.ipRequestCount[srcIp]
             IN  IF n > fw.dosRateLimit
                 THEN [st EXCEPT !.fw =
                          [counted EXCEPT
                              !.autoBlockedIps =
                                  IF n = fw.dosRateLimit + 1 THEN Append(@, srcIp) ELSE @,
                              !.totalBlocked = @ + 1]]
                 ELSE [fw |-> counted, allowed |-> Append(st.allowed, req)]

\* FilterOne without check 2: an auto-blocked source is counted again.
FilterOneSkipBanCheck(st, req) ==
    LET fw == st.fw
        srcIp == req.IPin
    IN  IF IsInBlockedRange(fw, srcIp)
        THEN [st EXCEPT !.fw.totalBlocked = @ + 1]
        ELSE LET counted == [fw EXCEPT !.ipRequestCount = CountIncrement(@, srcIp)]
                 n == counted.ipRequestCount[srcIp]
             IN  IF n > fw.dosRateLimit
                 THEN [st EXCEPT !.fw =
                          [counted EXCEPT
                              !.autoBlockedIps =
                                  IF n = fw.dosRateLimit + 1 THEN Append(@, srcIp) ELSE @,
                              !.totalBlocked = @ + 1]]
                 ELSE [fw |-> counted, allowed |-> Append(st.allowed, req)]

\* FilterOne with the count made before the two drop checks.
FilterOneCountFirst(st, req) ==
    LET fw == st.fw
        srcIp == req.IPin
        counted == [fw EXCEPT !.ipRequestCount = CountIncrement(@, srcIp)]
        n == counted.ipRequestCount[srcIp]
    IN  IF IsInBlockedRange(fw, srcIp)
        THEN [st EXCEPT !.fw = [counted EXCEPT !.totalBlocked = @ + 1]]
        ELSE IF IsAutoBlocked(fw, srcIp)
        THEN [st EXCEPT !.fw = [counted EXCEPT !.totalBlocked = @ + 1]]
        ELSE IF n > fw.dosRateLimit
             THEN [st EXCEPT !.fw =
                      [counted EXCEPT
                          !.autoBlockedIps =
                              IF n = fw.dosRateLimit + 1 THEN Append(@, srcIp) ELSE @,
                          !.totalBlocked = @ + 1]]
             ELSE [fw |-> counted, allowed |-> Append(st.allowed, req)]

\* A filter body that applies the three checks to the destination address.
FilterOneByDest(st, req) ==
    LET fw == st.fw
        srcIp == req.IPout
    IN  IF IsInBlockedRange(fw, srcIp)
        THEN [st EXCEPT !.fw.totalBlocked = @ + 1]
        ELSE IF IsAutoBlocked(fw, srcIp)
        THEN [st EXCEPT !.fw.totalBlocked = @ + 1]
        ELSE LET counted == [fw EXCEPT !.ipRequestCount = CountIncrement(@, srcIp)]
                 n == counted.ipRequestCount[srcIp]
             IN  IF n > fw.dosRateLimit
                 THEN [st EXCEPT !.fw =
                          [counted EXCEPT
                              !.autoBlockedIps =
                                  IF n = fw.dosRateLimit + 1 THEN Append(@, srcIp) ELSE @,
                              !.totalBlocked = @ + 1]]
                 ELSE [fw |-> counted, allowed |-> Append(st.allowed, req)]

\* One iteration of the for loop of Firewall::filterRequests on request req,
\* from the pair st = [fw, allowed].
FilterOne(st, req) ==
    LET fw == st.fw
        srcIp == req.IPin
    IN  IF IsInBlockedRange(fw, srcIp)
        THEN [st EXCEPT !.fw.totalBlocked = @ + 1]
        ELSE IF IsAutoBlocked(fw, srcIp)
        THEN [st EXCEPT !.fw.totalBlocked = @ + 1]
        ELSE LET counted == [fw EXCEPT !.ipRequestCount = CountIncrement(@, srcIp)]
                 n == counted.ipRequestCount[srcIp]
             IN  IF n > fw.dosRateLimit
                 THEN [st EXCEPT !.fw =
                          [counted EXCEPT
                              !.autoBlockedIps =
                                  IF n = fw.dosRateLimit + 1 THEN Append(@, srcIp) ELSE @,
                              !.totalBlocked = @ + 1]]
                 ELSE [fw |-> counted, allowed |-> Append(st.allowed, req)]

RECURSIVE FilterLoop(_, _, _)
FilterLoop(st, requests, i) ==
    IF i > Len(requests) THEN st
    ELSE FilterLoop(FilterOne(st, requests[i]), requests, i + 1)

\* Firewall::filterRequests: [fw |-> the firewall after the call,
\* allowed |-> the returned vector].
FilterRequests(fw, requests, clock) ==
    FilterLoop([fw |-> WindowReset(fw, clock), allowed |-> <<>>], requests, 1)

\* Firewall::getTotalBlocked
GetTotalBlocked(fw) == fw.totalBlocked

\* ------------------------------------------------------------------------
\* Request (request.cpp) and WebServer (webServer.cpp)
\* ------------------------------------------------------------------------

\* uid of an object no generator created (a default-constructed Request).
NoUid == [tick |-> -2, idx |-> 0]

\* Request::Request()
DefaultRequest ==
    [uid |-> NoUid, IPin |-> <<>>, IPout |-> <<>>, processTime |-> 0, jobType |-> "P"]

\* WebServer::WebServer(id)
NewWebServer(id) ==
    [id |-> id, isAvailable |-> TRUE, currentRequest |-> DefaultRequest,
     timeRemaining |-> 0]

\* WebServer::processRequest
ProcessRequest(server, request) ==
    [server EXCEPT !.currentRequest = request,
                   !.isAvailable = FALSE,
                   !.timeRemaining = request.processTime]

\* An update that frees the server one tick early.
UpdateEarly(server) ==
    IF ~server.isAvailable
    THEN LET t == server.timeRemaining - 1
         IN  [server EXCEPT !.timeRemaining = t,
                            !.isAvailable = IF t <= 1 THEN TRUE ELSE @]
    ELSE server

\* An update that frees the server one tick late.
UpdateLate(server) ==
    IF ~server.isAvailable
    THEN LET t == server.timeRemaining - 1
         IN  [server EXCEPT !.timeRemaining = t,
                            !.isAvailable = IF t < 0 THEN TRUE ELSE @]
    ELSE server

\* WebServer::update
Update(server) ==
    IF ~server.isAvailable
    THEN LET t == server.timeRemaining - 1
         IN  [server EXCEPT !.timeRemaining = t,
                            !.isAvailable = IF t <= 0 THEN TRUE ELSE @]
    ELSE server

\* WebServer::isReady
IsReady(server) == server.isAvailable

\* WebServer::getId
GetId(server) == server.id

\* ------------------------------------------------------------------------
\* LoadBalancer (loadBalancer.cpp)
\* ------------------------------------------------------------------------

\* A constructor that starts the pool's clock at 1.
NewLoadBalancerClockOne(requestQueue, webServers, name, minThreshold, maxThreshold, cooldownTime) ==
    [requestQueue |-> requestQueue,
     webServers   |-> webServers,
     name         |-> name,
     clockTime    |-> 1,
     minThreshold |-> minThreshold,
     maxThreshold |-> maxThreshold,
     cooldownTime |-> cooldownTime]

\* LoadBalancer::LoadBalancer
NewLoadBalancer(requestQueue, webServers, name, minThreshold, maxThreshold, cooldownTime) ==
    [requestQueue |-> requestQueue,
     webServers   |-> webServers,
     name         |-> name,
     clockTime    |-> 0,
     minThreshold |-> minThreshold,
     maxThreshold |-> maxThreshold,
     cooldownTime |-> cooldownTime]

\* An enqueue loop that pushes one request and discards the rest.
EnqueueLoopOnce(st) ==
    IF st.vec = <<>> THEN st
    ELSE [queue |-> Append(st.queue, st.vec[1]), vec |-> <<>>]

\* The enqueue loop of LoadBalancer::runCycle:
\*   while (!newRequests->empty()) { requestQueue.push(newRequests->front());
\*                                   newRequests->pop_back(); }
\* from st = [queue, vec]; returns the pair when vec is empty.
RECURSIVE EnqueueLoop(_)
EnqueueLoop(st) ==
    IF st.vec = <<>> THEN st
    ELSE EnqueueLoop([queue |-> Append(st.queue, st.vec[1]),
                      vec   |-> SubSeq(st.vec, 1, Len(st.vec) - 1)])

\* Index of the first server at or after i with this id, ready or not.
RECURSIVE FindById(_, _, _)
FindById(servers, serverId, i) ==
    IF i > Len(servers) THEN 0
    ELSE IF GetId(servers[i]) = serverId THEN i
    ELSE FindById(servers, serverId, i + 1)

\* Index of the last server at or after i with this id that is ready, 0 if
\* none.
FindLastReadyById(servers, serverId, i) ==
    LET found == {k \in i..Len(servers) :
                     GetId(servers[k]) = serverId /\ IsReady(servers[k])}
    IN  IF found = {} THEN 0
        ELSE CHOOSE k \in found : \A j \in found : j <= k

\* Index of the first server at or after i with this id that is ready, 0 if
\* none: the search loop of LoadBalancer::sendRequest.
RECURSIVE FindReadyById(_, _, _)
FindReadyById(servers, serverId, i) ==
    IF i > Len(servers) THEN 0
    ELSE IF GetId(servers[i]) = serverId /\ IsReady(servers[i]) THEN i
    ELSE FindReadyById(servers, serverId, i + 1)

\* LoadBalancer::sendRequest: [servers |-> webServers after the call,
\* ret |-> the returned bool, at |-> the index of the server that took the
\* request (0 if none)].
SendRequest(servers, request, serverId) ==
    LET k == FindReadyById(servers, serverId, 1)
    IN  IF k = 0
        THEN [servers |-> servers, ret |-> FALSE, at |-> 0]
        ELSE [servers |-> [servers EXCEPT ![k] = ProcessRequest(@, request)],
              ret |-> TRUE, at |-> k]

\* A dispatch loop that takes a request from the queue for every server it
\* visits and hands it out only when the server is ready.
RECURSIVE DispatchLoopPopAlways(_, _)
DispatchLoopPopAlways(st, i) ==
    IF i > Len(st.servers) THEN st
    ELSE IF st.queue = <<>> THEN st
    ELSE IF IsReady(st.servers[i])
    THEN LET request == Head(st.queue)
             r == SendRequest(st.servers, request, GetId(st.servers[i]))
         IN  DispatchLoopPopAlways(
                 [queue   |-> Tail(st.queue),
                  servers |-> r.servers,
                  sent    |-> Append(st.sent,
                                [request |-> request, visiting |-> i,
                                 at |-> r.at, ret |-> r.ret])], i + 1)
    ELSE DispatchLoopPopAlways([st EXCEPT !.queue = Tail(@)], i + 1)

\* A dispatch loop that serves the back of the queue first.
RECURSIVE DispatchLoopFromBack(_, _)
DispatchLoopFromBack(st, i) ==
    IF i > Len(st.servers) THEN st
    ELSE IF st.queue = <<>> THEN st
    ELSE IF IsReady(st.servers[i])
    THEN LET request == st.queue[Len(st.queue)]
             r == SendRequest(st.servers, request, GetId(st.servers[i]))
         IN  DispatchLoopFromBack(
                 [queue   |-> SubSeq(st.queue, 1, Len(st.queue) - 1),
                  servers |-> r.servers,
                  sent    |-> Append(st.sent,
                                [request |-> request, visiting |-> i,
                                 at |-> r.at, ret |-> r.ret])], i + 1)
    ELSE DispatchLoopFromBack(st, i + 1)

\* A dispatch loop that stops after the first request it hands out.
RECURSIVE DispatchLoopOnePerCycle(_, _)
DispatchLoopOnePerCycle(st, i) ==
    IF i > Len(st.servers) THEN st
    ELSE IF st.queue = <<>> THEN st
    ELSE IF IsReady(st.servers[i])
    THEN LET request == Head(st.queue)
             r == SendRequest(st.servers, request, GetId(st.servers[i]))
         IN  [queue   |-> Tail(st.queue),
              servers |-> r.servers,
              sent    |-> Append(st.sent,
                            [request |-> request, visiting |-> i,
                             at |-> r.at, ret |-> r.ret])]
    ELSE DispatchLoopOnePerCycle(st, i + 1)

\* The dispatch loop of LoadBalancer::runCycle from server index i, on
\* st = [queue, servers, sent]; sent logs each sendRequest call made:
\* [request, visiting |-> index of the server the loop was at, at, ret].
RECURSIVE DispatchLoop(_, _)
DispatchLoop(st, i) ==
    IF i > Len(st.servers) THEN st
    ELSE IF st.queue = <<>> THEN st
    ELSE IF IsReady(st.servers[i])
    THEN LET request == Head(st.queue)
             r == SendRequest(st.servers, request, GetId(st.servers[i]))
         IN  DispatchLoop([queue   |-> Tail(st.queue),
                           servers |-> r.servers,
                           sent    |-> Append(st.sent,
                                         [request |-> request, visiting |-> i,
                                          at |-> r.at, ret |-> r.ret])], i + 1)
    ELSE DispatchLoop(st, i + 1)

\* The update loop of LoadBalancer::runCycle.
UpdateAll(servers) == [i \in 1..Len(servers) |-> Update(servers[i])]

\* An allocateServer that puts the new server in front of the others.
AllocateServerAtFront(lb) ==
    [lb EXCEPT !.webServers = <<NewWebServer(lb.clockTime)>> \o @]

\* An allocateServer that adds a server only to a pool that has one.
AllocateServerIfAny(lb) ==
    IF lb.webServers = <<>> THEN lb
    ELSE [lb EXCEPT !.webServers = Append(@, NewWebServer(lb.clockTime))]

\* LoadBalancer::allocateServer
AllocateServer(lb) ==
    [lb EXCEPT !.webServers = Append(@, NewWebServer(lb.clockTime))]

\* Index of the first ready server at or after i, 0 if none.
RECURSIVE FirstReady(_, _)
FirstReady(servers, i) ==
    IF i > Len(servers) THEN 0
    ELSE IF IsReady(servers[i]) THEN i
    ELSE FirstReady(servers, i + 1)

\* vector::erase(begin() + (k-1))
EraseAt(seq, k) == SubSeq(seq, 1, k - 1) \o SubSeq(seq, k + 1, Len(seq))

\* A deallocateServer that removes the first server, ready or not.
DeallocateServerFirst(lb) ==
    IF lb.webServers # <<>>
    THEN [lb EXCEPT !.webServers = EraseAt(@, 1)]
    ELSE lb

\* A deallocateServer that removes the last server when none is ready.
DeallocateServerOrLast(lb) ==
    IF lb.webServers # <<>>
    THEN LET k == FirstReady(lb.webServers, 1)
         IN  IF k # 0 THEN [lb EXCEPT !.webServers = EraseAt(@, k)]
             ELSE [lb EXCEPT !.webServers = EraseAt(@, Len(@))]
    ELSE lb

\* A deallocateServer that never removes the last server of the pool.
DeallocateServerKeepOne(lb) ==
    IF Len(lb.webServers) > 1
    THEN LET k == FirstReady(lb.webServers, 1)
         IN  IF k # 0 THEN [lb EXCEPT !.webServers = EraseAt(@, k)] ELSE lb
    ELSE lb

\* LoadBalancer::deallocateServer
DeallocateServer(lb) ==
    IF lb.webServers # <<>>
    THEN LET k == FirstReady(lb.webServers, 1)
         IN  IF k # 0 THEN [lb EXCEPT !.webServers = EraseAt(@, k)] ELSE lb
    ELSE lb

\* An auto-scaling block that is evaluated in every cycle.
AutoscaleUngated(lb) ==
    IF Len(lb.requestQueue) < lb.minThreshold * Len(lb.webServers)
    THEN DeallocateServer(lb)
    ELSE IF Len(lb.requestQueue) > lb.maxThreshold * Len(lb.webServers)
    THEN AllocateServer(lb)
    ELSE lb

\* An auto-scaling block that compares the depth per server with the
\* thresholds and so has to leave a pool without servers alone.
AutoscalePerServer(lb) ==
    IF lb.clockTime % lb.cooldownTime = 0 /\ Len(lb.webServers) # 0
    THEN IF Len(lb.requestQueue) \div Len(lb.webServers) < lb.minThreshold
         THEN DeallocateServer(lb)
         ELSE IF Len(lb.requestQueue) \div Len(lb.webServers) > lb.maxThreshold
         THEN AllocateServer(lb)
         ELSE lb
    ELSE lb

\* An auto-scaling block that tests for allocation first.
AutoscaleAllocateFirst(lb) ==
    IF lb.clockTime % lb.cooldownTime = 0
    THEN IF Len(lb.requestQueue) > lb.maxThreshold * Len(lb.webServers)
         THEN AllocateServer(lb)
         ELSE IF Len(lb.requestQueue) < lb.minThreshold * Len(lb.webServers)
         THEN DeallocateServer(lb)
         ELSE lb
    ELSE lb

\* The auto-scaling block of LoadBalancer::runCycle. The thresholds of the
\* model are never negative, so the unsigned products are the plain ones.
Autoscale(lb) ==
    IF lb.clockTime % lb.cooldownTime = 0
    THEN IF Len(lb.requestQueue) < lb.minThreshold * Len(lb.webServers)
         THEN DeallocateServer(lb)
         ELSE IF Len(lb.requestQueue) > lb.maxThreshold * Len(lb.webServers)
         THEN AllocateServer(lb)
         ELSE lb
    ELSE lb

\* ------------------------------------------------------------------------
\* Inputs
\* ------------------------------------------------------------------------

DigitChar(d) ==
    CASE d = 0 -> "0" [] d = 1 -> "1" [] d = 2 -> "2" [] d = 3 -> "3"
      [] d = 4 -> "4" [] d = 5 -> "5" [] d = 6 -> "6" [] d = 7 -> "7"
      [] d = 8 -> "8" [] d = 9 -> "9"

\* std::to_string(n) for n >= 0
RECURSIVE ToStr(_)
ToStr(n) ==
    IF n < 10 THEN <<DigitChar(n)>>
    ELSE Append(ToStr(n \div 10), DigitChar(n % 10))

\* Request::generateIP with the four numbers rand() % 256 produced, b[1] first.
GenerateIP(b) ==
    ToStr(b[1]) \o <<".">> \o ToStr(b[2]) \o <<".">>
        \o ToStr(b[3]) \o <<".">> \o ToStr(b[4])

\* The text "a/p" of a CIDR rule for address bytes a and prefix length p.
CidrText(a, p) == GenerateIP(a) \o <<"/">> \o ToStr(p)

\* The destination address of the requests of the model (never read by the
\* firewall or the pools, only logged).
DestIp == GenerateIP(<<1, 1, 1, 1>>)

\* Request::Request(processTime, jobType) with the source address generateIP
\* produced; tick and idx name the object (tick -1: created by main).
MkRequest(tick, idx, ipIn, processTime, jobType) ==
    [uid |-> [tick |-> tick, idx |-> idx], IPin |-> ipIn, IPout |-> DestIp,
     processTime |-> processTime, jobType |-> jobType]

\* Source addresses of the requests of the model: one inside 10.0.0.0/8, and
\* two outside every private range.
SrcPrivate == GenerateIP(<<10, 0, 0, 5>>)
SrcA == GenerateIP(<<8, 8, 8, 8>>)
SrcB == GenerateIP(<<172, 32, 0, 1>>)
Sources == {SrcPrivate, SrcA, SrcB}

\* All sequences over S of length at most n.
RECURSIVE SeqsUpTo(_, _)
SeqsUpTo(S, n) ==
    IF n = 0 THEN {<<>>}
    ELSE LET shorter == SeqsUpTo(S, n - 1)
         IN  shorter \cup {Append(q, x) : q \in {r \in shorter : Len(r) = n - 1}, x \in S}

\* The source addresses of the bursts handed to filterRequests: every mix of
\* at most MaxBurst sources, and a run of FloodLen requests of one source.
BurstSources ==
    SeqsUpTo(Sources, MaxBurst) \cup {[i \in 1..FloodLen |-> SrcA]}

\* The burst of requests created at tick `tick` with these sources.
BurstOf(srcs, tick) ==
    [i \in 1..Len(srcs) |-> MkRequest(tick, i, srcs[i], 1, "P")]

\* The three rules Switch::Switch registers.
CidrTen == CidrText(<<10, 0, 0, 0>>, 8)
CidrOneSevenTwo == CidrText(<<172, 16, 0, 0>>, 12)
CidrOneNineTwo == CidrText(<<192, 168, 0, 0>>, 16)

\* The rate limit and the window Switch::Switch constructs its Firewall with.
SwitchRateLimit == 5
SwitchWindowSize == 20

\* (dosRateLimit, dosWindowSize) pairs a Firewall is constructed with.
FirewallParams == {<<SwitchRateLimit, SwitchWindowSize>>, <<1, 1>>, <<2, 0>>}

\* The firewall of Switch::Switch after its three blockRange calls, for a
\* Firewall constructed with these parameters.
WithSwitchRanges(fw) ==
    BlockRange(BlockRange(BlockRange(fw, CidrTen), CidrOneSevenTwo), CidrOneNineTwo)

\* ------------------------------------------------------------------------
\* State
\* ------------------------------------------------------------------------

VARIABLES
    firewall,      \* the Firewall object
    loadBalancer,  \* name -> LoadBalancer object ("P", "S")
    clockTime,     \* Switch::clockTime (the caller's clock in SpecFirewall)
    clockCycles,   \* argument of Switch::run
    rawRequests,   \* local of Switch::run
    allowed,       \* local of Switch::run
    filtered,      \* name -> filtered_P / filtered_S, the vectors runCycle is given
    pc,            \* position in Switch::run, or the driver of a component spec
    lbpc,          \* position inside LoadBalancer::runCycle
    lastCall,      \* history: the last call made on a component, with its result
    rangeCalls,    \* history: the arguments of the blockRange calls made, in order
    passedIn,      \* history: number of requests handed to filterRequests
    returned,      \* history: number of requests filterRequests returned
    admitted,      \* history: the requests Switch::run got back in `allowed`
    handed,        \* history: name -> requests handed to runCycle, in order
    dispatched,    \* history: name -> sendRequest calls made, in order
    tickStart,     \* history: the pools and the vectors of the tick, as they
                   \* are when Switch::run makes its first runCycle call
    calls          \* history: the filterRequests and runCycle calls made, in
                   \* order, each with the size of the vector it was given

vars ==
    <<firewall, loadBalancer, clockTime, clockCycles, rawRequests, allowed,
      filtered, pc, lbpc, lastCall, rangeCalls, passedIn, returned, admitted,
      handed, dispatched, tickStart, calls>>

swVars == <<clockCycles, rawRequests, allowed>>
lbVars == <<loadBalancer, filtered, lbpc, handed, dispatched>>

Names == {"P", "S"}

NoCall == [op |-> "none"]

\* A pool that is not part of the run of a component specification.
IdlePool(name) == NewLoadBalancer(<<>>, <<>>, name, 1, 1, 1)

\* The elements of a sequence.
Range(q) == {q[i] : i \in 1..Len(q)}

\* No iteration of Switch::run has reached its runCycle calls.
NoTick == [pools |-> <<>>, vecs |-> <<>>]

\* Initial values of the history variables.
HistoryEmpty ==
    /\ lastCall = NoCall
    /\ rangeCalls = <<>>
    /\ passedIn = 0
    /\ returned = 0
    /\ admitted = {}
    /\ handed = [n \in Names |-> <<>>]
    /\ dispatched = [n \in Names |-> <<>>]
    /\ tickStart = NoTick
    /\ calls = <<>>

\* The Switch and the pools in a specification that drives the Firewall
\* alone.
FirewallAlone ==
    /\ loadBalancer = [n \in Names |-> IdlePool(n)]
    /\ rawRequests = <<>>
    /\ allowed = <<>>
    /\ filtered = [n \in Names |-> <<>>]
    /\ lbpc = "idle"

\* ------------------------------------------------------------------------
\* SpecFirewall: one Firewall object, constructed with one of FirewallParams
\* and either no rule or the three rules of Switch::Switch, then driven as
\* Switch::run drives it: filterRequests once per tick with the caller's
\* clock.
\* ------------------------------------------------------------------------

InitFirewall ==
    /\ \E prm \in FirewallParams :
          \/ firewall = NewFirewall(prm[1], prm[2])
          \/ firewall = WithSwitchRanges(NewFirewall(prm[1], prm[2]))
    /\ FirewallAlone
    /\ HistoryEmpty
    /\ clockTime = 0
    /\ clockCycles = MaxTicks
    /\ pc = "firewall"

\* firewall.filterRequests(requests, clockTime, logFile), then clockTime++
FwFilterRequests ==
    /\ pc = "firewall"
    /\ clockTime < clockCycles
    /\ \E srcs \in BurstSources :
          LET requests == BurstOf(srcs, clockTime)
              r == FilterRequests(firewall, requests, clockTime)
          IN  /\ firewall' = r.fw
              /\ lastCall' = [op |-> "filterRequests", requests |-> requests,
                              clock |-> clockTime, ret |-> r.allowed]
              /\ passedIn' = passedIn + Len(requests)
              /\ returned' = returned + Len(r.allowed)
    /\ clockTime' = clockTime + 1
    /\ UNCHANGED <<pc, rangeCalls, admitted, tickStart, calls>>
    /\ UNCHANGED swVars
    /\ UNCHANGED lbVars

NextFirewall == FwFilterRequests

SpecFirewall == InitFirewall /\ [][NextFirewall]_vars

\* ------------------------------------------------------------------------
\* Properties of Firewall::filterRequests (SpecFirewall)
\* ------------------------------------------------------------------------

\* The sources of autoBlockedIps as a set.
AutoBlockedSet(fw) == {fw.autoBlockedIps[k] : k \in 1..Len(fw.autoBlockedIps)}

\* Number of requests among the first n of sequence q whose source is src.
RECURSIVE CountFrom(_, _, _)
CountFrom(q, n, src) ==
    IF n = 0 THEN 0
    ELSE CountFrom(q, n - 1, src) + (IF q[n].IPin = src THEN 1 ELSE 0)

\* Number of occurrences of x in sequence q.
Occurrences(q, x) == Cardinality({k \in 1..Len(q) : q[k] = x})

\* The count a source has in the window a call at clock `clock` belongs to,
\* before the call examines any request: 0 when the call starts a new
\* window, else the count the source has accumulated.
WindowCount(fw, clock, src) ==
    IF fw.dosWindowSize > 0 /\ clock % fw.dosWindowSize = 0 /\ clock # 0
    THEN 0
    ELSE IF src \in DOMAIN fw.ipRequestCount THEN fw.ipRequestCount[src] ELSE 0

\* A step that is a filterRequests call (lastCall' describes it).
IsFilterStep == lastCall'.op = "filterRequests" /\ clockTime' = clockTime + 1

\* What C4 says of one filterRequests call, for source src that matches no
\* static range and is not auto-blocked when the call starts: its k-th
\* request of the call is returned exactly when the window count before the
\* call plus k is at most dosRateLimit; if some request takes the count to
\* dosRateLimit + 1 the source is in autoBlockedIps after the call.
RateLimitStepFor(src) ==
    LET reqs == lastCall'.requests
        ret == lastCall'.ret
        c0 == WindowCount(firewall, lastCall'.clock, src)
        sent == CountFrom(reqs, Len(reqs), src)
    IN  (~IsInBlockedRange(firewall, src) /\ ~IsAutoBlocked(firewall, src)) =>
           /\ \A i \in 1..Len(reqs) :
                 reqs[i].IPin = src =>
                    ((\E k \in 1..Len(ret) : ret[k] = reqs[i])
                        <=> c0 + CountFrom(reqs, i, src) <= firewall.dosRateLimit)
           /\ (c0 + sent > firewall.dosRateLimit)
                 => Occurrences(firewall'.autoBlockedIps, src) = 1
           /\ (c0 + sent <= firewall.dosRateLimit)
                 => ~IsAutoBlocked(firewall', src)

\* The example of C4: dosRateLimit = 5, a fresh source, seven requests of it
\* in one call: the first five are returned and totalBlocked rises by 2.
RateLimitExample ==
    LET reqs == lastCall'.requests
    IN  (/\ firewall.dosRateLimit = 5
         /\ Len(reqs) = 7
         /\ \A i \in 1..7 : reqs[i].IPin = SrcA
         /\ ~IsInBlockedRange(firewall, SrcA)
         /\ ~IsAutoBlocked(firewall, SrcA)
         /\ WindowCount(firewall, lastCall'.clock, SrcA) = 0)
        => /\ lastCall'.ret = SubSeq(reqs, 1, 5)
           /\ firewall'.totalBlocked = firewall.totalBlocked + 2
           /\ IsAutoBlocked(firewall', SrcA)

\* C4: rate-limit threshold. In every filterRequests call, for a source that
\* matches no static range and is not auto-blocked, the requests that keep
\* its window count at or below dosRateLimit are admitted, the request that
\* takes the count to dosRateLimit + 1 is dropped and puts the source into
\* autoBlockedIps (once), and its later requests are dropped; with
\* dosRateLimit = 5 and seven requests of one fresh source in one call the
\* first five are admitted and totalBlocked rises by 2.
C4_RateLimitThreshold ==
    [][IsFilterStep => (RateLimitExample /\ \A src \in Sources : RateLimitStepFor(src))]_vars

\* Witness of C4: the state after the call of the example.
C4_Witness ==
    /\ lastCall.op = "filterRequests"
    /\ firewall.dosRateLimit = 5
    /\ Len(lastCall.requests) = 7
    /\ Len(lastCall.ret) = 5
    /\ firewall.autoBlockedIps = <<SrcA>>
    /\ firewall.totalBlocked = 2
    /\ firewall.ipRequestCount[SrcA] = 6

\* C5: monotonic auto-block. A source in autoBlockedIps is still there after
\* every step, and no request of it is returned by the call of that step,
\* whether or not the call reset the window.
C5_MonotonicAutoBlock ==
    [][\A src \in AutoBlockedSet(firewall) :
          /\ src \in AutoBlockedSet(firewall')
          /\ IsFilterStep =>
                \A k \in 1..Len(lastCall'.ret) : lastCall'.ret[k].IPin # src]_vars

\* Witness of C5: a call that reset the window (the counter of SrcA is gone)
\* dropped a request of SrcA, auto-blocked in an earlier window.
C5_Witness ==
    /\ lastCall.op = "filterRequests"
    /\ firewall.dosWindowSize = 1
    /\ lastCall.clock = 1
    /\ SrcA \in AutoBlockedSet(firewall)
    /\ SrcA \notin DOMAIN firewall.ipRequestCount
    /\ \E i \in 1..Len(lastCall.requests) : lastCall.requests[i].IPin = SrcA
    /\ \A k \in 1..Len(lastCall.ret) : lastCall.ret[k].IPin # SrcA

\* Position of request r in sequence q (the requests of one call are distinct
\* objects).
PositionIn(q, r) == CHOOSE i \in 1..Len(q) : q[i] = r

C8_DropAccounting ==
    [][/\ firewall.totalBlocked = passedIn - returned
       /\ firewall'.totalBlocked = passedIn' - returned'
       /\ firewall'.totalBlocked >= firewall.totalBlocked
       /\ IsFilterStep =>
             firewall'.totalBlocked - firewall.totalBlocked
                = Len(lastCall'.requests) - Len(lastCall'.ret)]_vars

\* Witness of C8: after two calls, requests were dropped by the static-range
\* check and by the auto-block check, and some were returned.
C8_Witness ==
    /\ clockTime = 2
    /\ returned > 0
    /\ firewall.blockedRanges # <<>>
    /\ firewall.autoBlockedIps # <<>>
    /\ \E i \in 1..Len(lastCall.requests) : lastCall.requests[i].IPin = SrcPrivate
    /\ firewall.totalBlocked > Len(lastCall.requests) - Len(lastCall.ret)
    /\ Len(lastCall.requests) > Len(lastCall.ret) + 1

\* ------------------------------------------------------------------------
\* SpecCidr: blockRange("a/p") for an address a and a prefix length p on a
\* Firewall that holds no rule or the three rules of Switch::Switch, then
\* isInBlockedRange on probe addresses.
\* ------------------------------------------------------------------------

\* Addresses of the rules under test (the last has host bits set for every
\* prefix length below 32).
CidrAddrs == {<<10, 0, 0, 0>>, <<172, 16, 0, 0>>, <<203, 0, 113, 77>>}

PrefixLengths == 0..32

\* Bit k of a 32-bit value, k = 1 the most significant.
BitOf(x, k) == (x[((k - 1) \div 8) + 1] \div Pow2(7 - ((k - 1) % 8))) % 2

\* x with bit k inverted.
FlipBit(x, k) ==
    LET i == ((k - 1) \div 8) + 1
        w == Pow2(7 - ((k - 1) % 8))
    IN  [x EXCEPT ![i] = IF BitOf(x, k) = 1 THEN @ - w ELSE @ + w]

\* The probes: each rule address and each address one bit away from one.
ProbeAddrs == CidrAddrs \cup {FlipBit(a, k) : a \in CidrAddrs, k \in 1..32}

InitCidr ==
    /\ \/ firewall = NewFirewall(SwitchRateLimit, SwitchWindowSize)
       \/ firewall = WithSwitchRanges(NewFirewall(SwitchRateLimit, SwitchWindowSize))
    /\ FirewallAlone
    /\ HistoryEmpty
    /\ clockTime = 0
    /\ clockCycles = 0
    /\ pc = "cidr"

\* firewall.blockRange("a/p"), once
CidrBlockRange ==
    /\ pc = "cidr"
    /\ rangeCalls = <<>>
    /\ \E a \in CidrAddrs, p \in PrefixLengths :
          /\ firewall' = BlockRange(firewall, CidrText(a, p))
          /\ lastCall' = [op |-> "blockRange", cidr |-> CidrText(a, p)]
          /\ rangeCalls' = <<[cidr |-> CidrText(a, p), addr |-> a, prefix |-> p]>>
    /\ UNCHANGED <<clockTime, pc, passedIn, returned, admitted, tickStart, calls>>
    /\ UNCHANGED swVars
    /\ UNCHANGED lbVars

\* firewall.isInBlockedRange(ip) for the text of a probe address, right
\* after the blockRange call (the method is const: one probe per run shows
\* every result)
CidrProbe ==
    /\ pc = "cidr"
    /\ lastCall.op = "blockRange"
    /\ \E b \in ProbeAddrs :
          lastCall' = [op |-> "isInBlockedRange", ip |-> GenerateIP(b), addr |-> b,
                       ret |-> IsInBlockedRange(firewall, GenerateIP(b))]
    /\ UNCHANGED <<firewall, clockTime, pc, rangeCalls, passedIn, returned, admitted, tickStart, calls>>
    /\ UNCHANGED swVars
    /\ UNCHANGED lbVars

NextCidr == CidrBlockRange \/ CidrProbe

SpecCidr == InitCidr /\ [][NextCidr]_vars

\* a and b have the same top p bits.
TopBitsAgree(a, b, p) == \A k \in 1..p : BitOf(a, k) = BitOf(b, k)

\* C9: CIDR round trip. After blockRange("a/p"), the static-range check
\* matches every address that agrees with a on the top p bits, and, when the
\* rule is the only one registered, matches no address that differs from a
\* in one of the top p bits.
C9_CidrRoundTrip ==
    (lastCall.op = "isInBlockedRange" /\ rangeCalls # <<>>) =>
        LET a == rangeCalls[1].addr
            p == rangeCalls[1].prefix
        IN  /\ TopBitsAgree(a, lastCall.addr, p) => lastCall.ret
            /\ (Len(firewall.blockedRanges) = 1 /\ ~TopBitsAgree(a, lastCall.addr, p))
                  => ~lastCall.ret

\* Witness of C9: rule 203.0.113.77/0 as the only rule, and a probe that
\* differs from the rule's address in its first bit is matched.
C9_Witness ==
    /\ lastCall.op = "isInBlockedRange"
    /\ Len(firewall.blockedRanges) = 1
    /\ rangeCalls[1].addr = <<203, 0, 113, 77>>
    /\ rangeCalls[1].prefix = 0
    /\ lastCall.addr = <<75, 0, 113, 77>>
    /\ lastCall.ret

\* ------------------------------------------------------------------------
\* SpecConfig: blockRange calls with well-formed and malformed strings on a
\* Firewall that is fresh, holds the rules of Switch::Switch, or has already
\* filtered a burst.
\* ------------------------------------------------------------------------

CidrHost == CidrText(<<8, 8, 8, 8>>, 32)
CidrAll == CidrText(<<0, 0, 0, 0>>, 0)
CidrNoSlash == GenerateIP(<<10, 0, 0, 0>>)
CidrAlphaPrefix == GenerateIP(<<10, 0, 0, 0>>) \o <<"/", "x">>
CidrEmptyPrefix == GenerateIP(<<10, 0, 0, 0>>) \o <<"/">>
CidrPrefix33 == CidrText(<<10, 0, 0, 0>>, 33)
CidrNegPrefix == GenerateIP(<<10, 0, 0, 0>>) \o <<"/", "-", "1">>
CidrTrailing == CidrText(<<10, 0, 0, 0>>, 8) \o <<"x">>

CidrInputs ==
    {CidrTen, CidrHost, CidrAll, CidrNoSlash, CidrAlphaPrefix, CidrEmptyPrefix,
     CidrPrefix33, CidrNegPrefix, CidrTrailing}

\* A Firewall(1, 1) after filterRequests on FloodLen requests of SrcA and
\* one of SrcB at clock 0: it holds counters, an auto-blocked source and a
\* positive totalBlocked.
UsedFirewall ==
    FilterRequests(NewFirewall(1, 1),
                   BurstOf([i \in 1..FloodLen + 1 |-> IF i <= FloodLen THEN SrcA ELSE SrcB], 0),
                   0).fw

InitConfig ==
    /\ \/ firewall = NewFirewall(SwitchRateLimit, SwitchWindowSize)
       \/ firewall = WithSwitchRanges(NewFirewall(SwitchRateLimit, SwitchWindowSize))
       \/ firewall = UsedFirewall
    /\ FirewallAlone
    /\ HistoryEmpty
    /\ clockTime = 0
    /\ clockCycles = 0
    /\ pc = "config"

\* firewall.blockRange(cidr)
ConfigBlockRange ==
    /\ pc = "config"
    /\ Len(rangeCalls) < MaxRanges
    /\ \E cidr \in CidrInputs :
          /\ firewall' = BlockRange(firewall, cidr)
          /\ lastCall' = [op |-> "blockRange", cidr |-> cidr]
          /\ rangeCalls' = Append(rangeCalls, [cidr |-> cidr])
    /\ UNCHANGED <<clockTime, pc, passedIn, returned, admitted, tickStart, calls>>
    /\ UNCHANGED swVars
    /\ UNCHANGED lbVars

NextConfig == ConfigBlockRange

SpecConfig == InitConfig /\ [][NextConfig]_vars

\* s is a decimal numeral: digits only, after an optional minus sign.
IsNumeral(s) ==
    LET body == IF Len(s) >= 1 /\ s[1] = "-" THEN Tail(s) ELSE s
    IN  Len(body) >= 1 /\ \A i \in 1..Len(body) : body[i] \in Digit

\* The value of a numeral.
NumeralValue(s) ==
    IF s[1] = "-" THEN 0 - DigitRun(Tail(s), 1, 0) ELSE DigitRun(s, 1, 0)

\* The three malformations C10 names: no '/' separator, a prefix that is not
\* a number, a prefix outside 0..32.
Malformed(cidr) ==
    LET slash == FindFrom(cidr, "/", 1)
        prefixText == SubSeq(cidr, slash + 1, Len(cidr))
    IN  \/ slash = 0
        \/ ~IsNumeral(prefixText)
        \/ NumeralValue(prefixText) \notin 0..32

\* A step that is a blockRange call (lastCall' describes it).
IsBlockRangeStep ==
    lastCall'.op = "blockRange" /\ Len(rangeCalls') = Len(rangeCalls) + 1

\* C10: blockRange error handling. A blockRange call with a string that has
\* no '/', a non-numeric prefix or a prefix outside 0..32 leaves the rule
\* list, the auto-block list, the counters and totalBlocked unchanged, and a
\* call with a well-formed string, also after a rejected one, appends one
\* rule.
C10_MalformedCidrRejected ==
    [][IsBlockRangeStep =>
          IF Malformed(lastCall'.cidr)
          THEN firewall' = firewall
          ELSE /\ Len(firewall'.blockedRanges) = Len(firewall.blockedRanges) + 1
               /\ [firewall' EXCEPT !.blockedRanges = firewall.blockedRanges] = firewall]_vars

\* ------------------------------------------------------------------------
\* LoadBalancer::runCycle as the steps of its body. lbpc is the position in
\* the body; the steps follow each other with no other action enabled in
\* between. Cur is the pool whose runCycle is executing.
\* ------------------------------------------------------------------------

\* The pools taken in the other order.
CurSwapped == IF pc = "runS" THEN "P" ELSE "S"

Cur == IF pc = "runS" THEN "S" ELSE "P"

\* The enqueue loop. handed records the vector runCycle was given.
LbEnqueue ==
    /\ lbpc = "enqueue"
    /\ LET lb == loadBalancer[Cur]
           r  == EnqueueLoop([queue |-> lb.requestQueue, vec |-> filtered[Cur]])
       IN  /\ loadBalancer' = [loadBalancer EXCEPT ![Cur].requestQueue = r.queue]
           /\ filtered' = [filtered EXCEPT ![Cur] = r.vec]
           /\ handed' = [handed EXCEPT ![Cur] = @ \o filtered[Cur]]
           /\ calls' = Append(calls, [op |-> "runCycle", name |-> Cur,
                                      size |-> Len(filtered[Cur])])
    /\ lbpc' = "dispatch"
    /\ UNCHANGED <<firewall, clockTime, swVars, pc, lastCall, rangeCalls,
                   passedIn, returned, admitted, tickStart, dispatched>>

\* The dispatch loop. dispatched records the sendRequest calls it makes,
\* each with the clockTime of the cycle that made it.
LbDispatch ==
    /\ lbpc = "dispatch"
    /\ LET lb == loadBalancer[Cur]
           r  == DispatchLoop([queue |-> lb.requestQueue,
                               servers |-> lb.webServers, sent |-> <<>>], 1)
       IN  /\ loadBalancer' = [loadBalancer EXCEPT ![Cur].requestQueue = r.queue,
                                                   ![Cur].webServers = r.servers]
           /\ dispatched' =
                 [dispatched EXCEPT
                     ![Cur] = @ \o [k \in 1..Len(r.sent) |->
                                      [request  |-> r.sent[k].request,
                                       visiting |-> r.sent[k].visiting,
                                       at       |-> r.sent[k].at,
                                       ret      |-> r.sent[k].ret,
                                       cycle    |-> lb.clockTime]]]
    /\ lbpc' = "update"
    /\ UNCHANGED <<firewall, clockTime, swVars, filtered, pc, lastCall,
                   rangeCalls, passedIn, returned, admitted, tickStart, calls, handed>>

\* An update loop that runs over the servers of both pools, as it would if
\* the pools kept their servers in one shared collection.
LbUpdateShared ==
    /\ lbpc = "update"
    /\ loadBalancer' = [n \in Names |->
                           [loadBalancer[n] EXCEPT !.webServers = UpdateAll(@)]]
    /\ lbpc' = "scale"
    /\ UNCHANGED <<firewall, clockTime, swVars, filtered, pc, lastCall,
                   rangeCalls, passedIn, returned, admitted, tickStart, calls,
                   handed, dispatched>>

\* The update loop.
LbUpdate ==
    /\ lbpc = "update"
    /\ loadBalancer' = [loadBalancer EXCEPT ![Cur].webServers = UpdateAll(@)]
    /\ lbpc' = "scale"
    /\ UNCHANGED <<firewall, clockTime, swVars, filtered, pc, lastCall,
                   rangeCalls, passedIn, returned, admitted, tickStart, calls, handed, dispatched>>

\* The auto-scaling block, clockTime++ and the return of the queue size.
\* Control goes back to the caller: Switch::run calls the S pool after the
\* P pool, and increments its clock after the S pool.
LbScale ==
    /\ lbpc = "scale"
    /\ LET lb == Autoscale(loadBalancer[Cur])
       IN  /\ loadBalancer' = [loadBalancer EXCEPT
                                  ![Cur] = [lb EXCEPT !.clockTime = @ + 1]]
           /\ lastCall' = [op |-> "runCycle", name |-> Cur,
                           ret |-> Len(lb.requestQueue)]
    /\ lbpc' = IF pc = "runP" THEN "enqueue" ELSE "idle"
    /\ pc' = CASE pc = "runP" -> "runS"
               [] pc = "runS" -> "advance"
               [] OTHER -> pc
    /\ UNCHANGED <<firewall, clockTime, swVars, filtered, rangeCalls,
                   passedIn, returned, admitted, tickStart, calls, handed, dispatched>>

\* ------------------------------------------------------------------------
\* SpecPool: one LoadBalancer ("P"), constructed with a queue, a vector of
\* idle servers and a configuration, then given one vector of new requests
\* per runCycle call.
\* ------------------------------------------------------------------------

ProcessTimes == 1..MaxProcessTime

\* n processing times, starting at c and going round ProcessTimes.
CostRun(n, c) == [i \in 1..n |-> ((c + i - 2) % MaxProcessTime) + 1]

\* The processing times of the requests of a batch.
BatchCosts == {CostRun(n, c) : n \in 0..MaxBurst, c \in ProcessTimes}

\* The requests created at tick `tick` with these processing times.
BatchOf(costs, tick, jobType) ==
    [i \in 1..Len(costs) |-> MkRequest(tick, i, SrcA, costs[i], jobType)]

\* The vector main builds: WebServer(first), ..., WebServer(first + n - 1).
ServersFrom(first, n) == [i \in 1..n |-> NewWebServer(first + i - 1)]

\* (minThreshold, maxThreshold, cooldownTime) of the configuration.
PoolConfigs ==
    {[minThreshold |-> 1, maxThreshold |-> 2, cooldownTime |-> 1],
     [minThreshold |-> 0, maxThreshold |-> 1, cooldownTime |-> 2]}

\* The configuration of the pool constructed with the long queue and two
\* servers.
LongQueueConfig == [minThreshold |-> 1, maxThreshold |-> 3, cooldownTime |-> 5]

InitPool ==
    /\ firewall = NewFirewall(SwitchRateLimit, SwitchWindowSize)
    /\ \/ \E n \in 0..MaxServers, costs \in BatchCosts, cfg \in PoolConfigs :
             loadBalancer =
                 [name \in Names |->
                     IF name = "P"
                     THEN NewLoadBalancer(BatchOf(costs, -1, "P"), ServersFrom(0, n),
                                          "P", cfg.minThreshold, cfg.maxThreshold,
                                          cfg.cooldownTime)
                     ELSE IdlePool(name)]
       \/ loadBalancer =
             [name \in Names |->
                 IF name = "P"
                 THEN NewLoadBalancer(BatchOf(CostRun(LongQueue, 1), -1, "P"),
                                      ServersFrom(0, 2), "P",
                                      LongQueueConfig.minThreshold,
                                      LongQueueConfig.maxThreshold,
                                      LongQueueConfig.cooldownTime)
                 ELSE IdlePool(name)]
    /\ rawRequests = <<>>
    /\ allowed = <<>>
    /\ filtered = [n \in Names |-> <<>>]
    /\ lbpc = "idle"
    /\ HistoryEmpty
    /\ clockTime = 0
    /\ clockCycles = MaxTicks
    /\ pc = "pool"

\* The caller builds a vector of new requests and calls runCycle.
PoolRunCycle ==
    /\ pc = "pool"
    /\ lbpc = "idle"
    /\ loadBalancer["P"].clockTime < clockCycles
    /\ \E costs \in BatchCosts :
          filtered' = [filtered EXCEPT
                         !["P"] = BatchOf(costs, loadBalancer["P"].clockTime, "P")]
    /\ lbpc' = "enqueue"
    /\ UNCHANGED <<firewall, loadBalancer, clockTime, swVars, pc, lastCall,
                   rangeCalls, passedIn, returned, admitted, tickStart, calls, handed, dispatched>>

NextPool == PoolRunCycle \/ LbEnqueue \/ LbDispatch \/ LbUpdate \/ LbScale

SpecPool == InitPool /\ [][NextPool]_vars

\* ------------------------------------------------------------------------
\* Properties of the pool's queue
\* ------------------------------------------------------------------------

\* The step is the enqueue loop of pool n.
IsEnqueueStep(n) == lbpc = "enqueue" /\ lbpc' = "dispatch" /\ Cur = n

\* The step is the dispatch loop of pool n.
IsDispatchStep(n) == lbpc = "dispatch" /\ lbpc' = "update" /\ Cur = n

\* p is a prefix of q.
IsPrefix(p, q) == Len(p) <= Len(q) /\ SubSeq(q, 1, Len(p)) = p

\* The sendRequest calls pool n makes in the step.
NewlySent(n) ==
    SubSeq(dispatched'[n], Len(dispatched[n]) + 1, Len(dispatched'[n]))

\* C1: on every enqueue step the queue afterwards is the queue before
\* followed by the elements of the vector runCycle was given, in the
\* vector's order.
C1_EnqueueAppendsBatch ==
    [][\A n \in Names :
          IsEnqueueStep(n) =>
              loadBalancer'[n].requestQueue
                  = loadBalancer[n].requestQueue \o filtered[n]]_vars

\* C2: the queue is never reordered and requests leave it in queue order:
\* every step either leaves the queue of a pool as it is or extends it at the
\* tail, handing nothing to a server, or removes the first k requests of the
\* queue and hands exactly those, front first, each to a server that then
\* holds it.
C2_FifoDispatch ==
    [][\A n \in Names :
          LET q    == loadBalancer[n].requestQueue
              q2   == loadBalancer'[n].requestQueue
              sent == NewlySent(n)
          IN  \/ IsPrefix(q, q2) /\ sent = <<>>
              \/ \E k \in 1..Len(q) :
                    /\ q2 = SubSeq(q, k + 1, Len(q))
                    /\ Len(sent) = k
                    /\ \A j \in 1..k :
                          /\ sent[j].request = q[j]
                          /\ sent[j].ret
                          /\ sent[j].at \in 1..Len(loadBalancer'[n].webServers)
                          /\ LET server == loadBalancer'[n].webServers[sent[j].at]
                             IN  /\ ~IsReady(server)
                                 /\ server.currentRequest = q[j]]_vars

\* Two requests of different processing time were dispatched in one cycle,
\* the dearer one first as it was ahead in the queue, and the queue still
\* holds requests.
C2_Witness ==
    /\ pc = "pool"
    /\ lbpc = "update"
    /\ loadBalancer["P"].clockTime = 0
    /\ Len(dispatched["P"]) = 2
    /\ dispatched["P"][1].request.processTime
           > dispatched["P"][2].request.processTime
    /\ dispatched["P"][1].request.uid # dispatched["P"][2].request.uid
    /\ loadBalancer["P"].requestQueue # <<>>

\* The number of sendRequest calls of pool n that handed request r to a
\* server.
TimesAssigned(n, r) ==
    Cardinality({k \in 1..Len(dispatched[n]) :
                    dispatched[n][k].request = r /\ dispatched[n][k].ret})

\* C3: every request handed to runCycle is assigned to a server at most
\* once, and once the queue has drained every such request has been assigned
\* exactly once.
C3_ExactlyOnce ==
    \A n \in Names :
        \A i \in 1..Len(handed[n]) :
            /\ TimesAssigned(n, handed[n][i]) <= 1
            /\ loadBalancer[n].requestQueue = <<>>
                   => TimesAssigned(n, handed[n][i]) = 1

\* ------------------------------------------------------------------------
\* Spec: the program. main builds the servers and the pre-filled queues of
\* both pools and constructs the Switch, whose constructor builds the
\* Firewall and registers three rules; Switch::run then repeats: generate a
\* burst, filter it, split it by job type, run the P pool, run the S pool,
\* advance the clock.
\* ------------------------------------------------------------------------

\* Source addresses generateIP gives the requests main creates for one
\* queue: the model gives the whole queue one of these.
PrefillSources == {SrcPrivate, SrcA}

\* The queue main builds for one pool: n requests of job type jobType.
Prefill(n, src, jobType) ==
    [i \in 1..n |-> MkRequest(-1, i, src, CostRun(n, 1)[i], jobType)]

\* What rand() gives the fields of the requests of a burst, in turn.
BurstKinds ==
    <<[IPin |-> SrcA,       processTime |-> 1,              jobType |-> "P"],
      [IPin |-> SrcB,       processTime |-> MaxProcessTime, jobType |-> "S"],
      [IPin |-> SrcPrivate, processTime |-> 1,              jobType |-> "S"],
      [IPin |-> SrcPrivate, processTime |-> MaxProcessTime, jobType |-> "P"]>>

\* The burst of n requests created at tick `tick` whose fields are
\* BurstKinds from position k on, going round.
KindRun(n, k, tick) ==
    [i \in 1..n |->
        LET kind == BurstKinds[((k + i - 2) % Len(BurstKinds)) + 1]
        IN  MkRequest(tick, i, kind.IPin, kind.processTime, kind.jobType)]

\* The bursts Switch::run generates at tick `tick`: none, at most MaxBurst
\* mixed requests, or FloodLen requests of one source.
ProgramBursts(tick) ==
    {KindRun(n, k, tick) : n \in 0..MaxBurst, k \in 1..Len(BurstKinds)}
        \cup {[i \in 1..FloodLen |-> MkRequest(tick, i, SrcA, 1, "P")]}

\* The configuration of the program runs of the model.
ProgramConfig == [minThreshold |-> 1, maxThreshold |-> 2, cooldownTime |-> 1]

Init ==
    /\ firewall = WithSwitchRanges(NewFirewall(SwitchRateLimit, SwitchWindowSize))
    /\ \E initialServers \in 0..MaxServers, srcP \in PrefillSources,
          srcS \in PrefillSources :
          loadBalancer =
              [name \in Names |->
                  NewLoadBalancer(
                      Prefill(initialServers * PrefillFactor,
                              IF name = "P" THEN srcP ELSE srcS, name),
                      ServersFrom(IF name = "P" THEN 0 ELSE initialServers,
                                  initialServers),
                      name, ProgramConfig.minThreshold,
                      ProgramConfig.maxThreshold, ProgramConfig.cooldownTime)]
    /\ rawRequests = <<>>
    /\ allowed = <<>>
    /\ filtered = [n \in Names |-> <<>>]
    /\ lbpc = "idle"
    /\ HistoryEmpty
    /\ clockTime = 0
    /\ clockCycles \in 0..MaxTicks
    /\ pc = "generate"

\* The loop test and the burst generation of one iteration.
SwGenerate ==
    /\ pc = "generate"
    /\ clockTime < clockCycles
    /\ \E burst \in ProgramBursts(clockTime) : rawRequests' = burst
    /\ pc' = "filter"
    /\ UNCHANGED <<firewall, clockTime, clockCycles, allowed, lbVars, lastCall,
                   rangeCalls, passedIn, returned, admitted, tickStart, calls>>

\* allowed = firewall.filterRequests(rawRequests, clockTime, logFile)
SwFilter ==
    /\ pc = "filter"
    /\ LET r == FilterRequests(firewall, rawRequests, clockTime)
       IN  /\ firewall' = r.fw
           /\ allowed' = r.allowed
           /\ lastCall' = [op |-> "filterRequests", requests |-> rawRequests,
                           clock |-> clockTime, ret |-> r.allowed]
           /\ passedIn' = passedIn + Len(rawRequests)
           /\ returned' = returned + Len(r.allowed)
           /\ admitted' = admitted \cup Range(r.allowed)
           /\ calls' = Append(calls, [op |-> "filterRequests",
                                      clock |-> clockTime,
                                      size |-> Len(rawRequests),
                                      ret |-> r.allowed])
    /\ pc' = "partition"
    /\ UNCHANGED <<clockTime, clockCycles, rawRequests, lbVars, rangeCalls,
                   tickStart>>

IsJobP(req) == req.jobType = "P"

\* A test that every request passes.
IsJobAny(req) == req.jobType = req.jobType

IsJobOther(req) == req.jobType # "P"

\* The split by job type, up to the call of the P pool's runCycle.
SwPartition ==
    /\ pc = "partition"
    /\ filtered' = [n \in Names |->
                       IF n = "P" THEN SelectSeq(allowed, IsJobP)
                       ELSE SelectSeq(allowed, IsJobOther)]
    /\ pc' = "runP"
    /\ lbpc' = "enqueue"
    /\ tickStart' = [pools |-> loadBalancer, vecs |-> filtered']
    /\ UNCHANGED <<firewall, loadBalancer, clockTime, swVars, lastCall,
                   rangeCalls, passedIn, returned, admitted, handed, dispatched,
                   calls>>

\* An iteration that ends without clockTime++.
SwAdvanceStuck ==
    /\ pc = "advance"
    /\ pc' = "generate"
    /\ UNCHANGED <<firewall, clockTime, swVars, lbVars, lastCall, rangeCalls,
                   passedIn, returned, admitted, tickStart, calls>>

\* clockTime++ at the end of the iteration.
SwAdvance ==
    /\ pc = "advance"
    /\ clockTime' = clockTime + 1
    /\ pc' = "generate"
    /\ UNCHANGED <<firewall, swVars, lbVars, lastCall, rangeCalls, passedIn,
                   returned, admitted, tickStart, calls>>

\* The loop ends and the summary reads getTotalBlocked.
SwFinish ==
    /\ pc = "generate"
    /\ clockTime >= clockCycles
    /\ lastCall' = [op |-> "summary", totalBlocked |-> GetTotalBlocked(firewall)]
    /\ pc' = "done"
    /\ UNCHANGED <<firewall, clockTime, swVars, lbVars, rangeCalls, passedIn,
                   returned, admitted, tickStart, calls>>

Next ==
    \/ SwGenerate
    \/ SwFilter
    \/ SwPartition
    \/ LbEnqueue
    \/ LbDispatch
    \/ LbUpdate
    \/ LbScale
    \/ SwAdvance
    \/ SwFinish

Spec == Init /\ [][Next]_vars

\* ------------------------------------------------------------------------
\* Properties of the program
\* ------------------------------------------------------------------------

\* The requests pool n holds: those in its queue and those its busy servers
\* are processing.
HeldBy(n) ==
    Range(loadBalancer[n].requestQueue)
        \cup {loadBalancer[n].webServers[i].currentRequest :
                 i \in {j \in 1..Len(loadBalancer[n].webServers) :
                           ~IsReady(loadBalancer[n].webServers[j])}}

\* C6: no request whose source lies in a blocked range is in a pool's queue
\* or assigned to a server, and every request a pool holds was returned by
\* filterRequests before.
C6_PerimeterGuarantee ==
    \A n \in Names :
        \A r \in HeldBy(n) :
            /\ ~IsInBlockedRange(firewall, r.IPin)
            /\ r \in admitted

\* ------------------------------------------------------------------------
\* SpecParse: one filterRequests call on a Firewall whose requests carry
\* source strings that are not dotted-decimal addresses. filterRequests is
\* public and takes any Request; the Firewall starts with the rules of
\* Switch::Switch, with those and 0.0.0.0/0, or with 0.0.0.0/8 alone, fresh
\* or after a call that auto-blocked one of the sources.
\* ------------------------------------------------------------------------

\* "10.x.0.5": std::stoul throws on the second octet.
SrcBadOctet == <<"1", "0", ".", "x", ".", "0", ".", "5">>

\* "10.0.0.256": the fourth octet is above 255.
SrcBigOctet == GenerateIP(<<10, 0, 0, 256>>)

\* "10x.0.0.5": the first octet has text after its digits.
SrcTrailing == <<"1", "0", "x", ".", "0", ".", "0", ".", "5">>

ParseSources == {SrcBadOctet, SrcBigOctet, SrcTrailing, SrcA}

CidrZeroEight == CidrText(<<0, 0, 0, 0>>, 8)

\* A firewall with these rules after a call that took SrcBadOctet over a
\* rate limit of 1.
AfterBadFlood(fw) ==
    FilterRequests(fw, BurstOf(<<SrcBadOctet, SrcBadOctet>>, 0), 0).fw

InitParse ==
    /\ \E rules \in {WithSwitchRanges(NewFirewall(1, 1)),
                      BlockRange(WithSwitchRanges(NewFirewall(1, 1)), CidrAll),
                      BlockRange(NewFirewall(1, 1), CidrZeroEight)} :
          \/ firewall = rules
          \/ firewall = AfterBadFlood(rules)
    /\ FirewallAlone
    /\ HistoryEmpty
    /\ clockTime = 0
    /\ clockCycles = 1
    /\ pc = "parse"

\* firewall.filterRequests(requests, clockTime, logFile)
ParseFilterRequests ==
    /\ pc = "parse"
    /\ clockTime < clockCycles
    /\ \E srcs \in SeqsUpTo(ParseSources, MaxBurst) :
          LET requests == BurstOf(srcs, clockTime)
              r == FilterRequests(firewall, requests, clockTime)
          IN  /\ firewall' = r.fw
              /\ lastCall' = [op |-> "filterRequests", requests |-> requests,
                              clock |-> clockTime, ret |-> r.allowed]
              /\ passedIn' = passedIn + Len(requests)
              /\ returned' = returned + Len(r.allowed)
    /\ clockTime' = clockTime + 1
    /\ UNCHANGED <<pc, rangeCalls, admitted, tickStart, calls>>
    /\ UNCHANGED swVars
    /\ UNCHANGED lbVars

NextParse == ParseFilterRequests

SpecParse == InitParse /\ [][NextParse]_vars

\* t is the text of an octet: digits only, value at most 255.
IsOctet(t) ==
    /\ Len(t) >= 1
    /\ \A i \in 1..Len(t) : t[i] \in Digit
    /\ DigitRun(t, 1, 0) <= 255

\* Some octet of the address text is unparseable or above 255.
HasBadOctet(ip) ==
    \E i \in 1..Len(GetlineTokens(ip)) : ~IsOctet(GetlineTokens(ip)[i])

\* The rule 0.0.0.0/0 is registered.
HasRuleAll(fw) ==
    \E r \in 1..Len(fw.blockedRanges) :
        fw.blockedRanges[r].network = Zero32 /\ fw.blockedRanges[r].mask = Zero32

RECURSIVE IdleFrom(_, _)
IdleFrom(servers, i) ==
    IF i > Len(servers) THEN <<>>
    ELSE IF IsReady(servers[i]) THEN <<i>> \o IdleFrom(servers, i + 1)
    ELSE IdleFrom(servers, i + 1)

Min(a, b) == IF a <= b THEN a ELSE b

\* C12: the dispatch step. With idle the ready servers in stored order and q
\* the queue after enqueue, the step hands out k = min(number of idle
\* servers, length of q) requests: the j-th idle server, for j up to k,
\* receives q[j] and is then busy with timeRemaining equal to that request's
\* processTime; every other server and the rest of the queue are unchanged.
C12_DispatchStep ==
    [][\A n \in Names :
          IsDispatchStep(n) =>
              LET q    == loadBalancer[n].requestQueue
                  sv   == loadBalancer[n].webServers
                  sv2  == loadBalancer'[n].webServers
                  idle == IdleFrom(sv, 1)
                  k    == Min(Len(idle), Len(q))
                  sent == NewlySent(n)
              IN  /\ Len(sent) = k
                  /\ loadBalancer'[n].requestQueue = SubSeq(q, k + 1, Len(q))
                  /\ Len(sv2) = Len(sv)
                  /\ \A j \in 1..k :
                        /\ sent[j].visiting = idle[j]
                        /\ sent[j].request = q[j]
                        /\ ~IsReady(sv2[idle[j]])
                        /\ sv2[idle[j]].timeRemaining = q[j].processTime
                        /\ sv2[idle[j]].currentRequest = q[j]
                        /\ GetId(sv2[idle[j]]) = GetId(sv[idle[j]])
                  /\ \A i \in 1..Len(sv) :
                        (\A j \in 1..k : idle[j] # i) => sv2[i] = sv[i]]_vars

\* The second cycle's dispatch passed over the first server, still busy with
\* the first request it was given, and handed a request to the second.
C12_Witness ==
    /\ pc = "pool"
    /\ lbpc = "update"
    /\ loadBalancer["P"].clockTime = 1
    /\ Len(loadBalancer["P"].webServers) >= 2
    /\ ~IsReady(loadBalancer["P"].webServers[1])
    /\ loadBalancer["P"].webServers[1].timeRemaining = 1
    /\ Len(dispatched["P"]) = 3
    /\ dispatched["P"][3].visiting = 2
    /\ loadBalancer["P"].webServers[1].currentRequest = dispatched["P"][1].request

\* The step is the end of runCycle of pool n: auto-scaling, clockTime++ and
\* the return.
IsScaleStep(n) == lbpc = "scale" /\ Cur = n

\* C13: runCycle returns the queue depth at the end of the cycle, and that
\* depth is the depth before the call plus the number of requests given
\* minus the number dispatched: on every step the depth of a pool changes by
\* the number of requests the step took from the vector given to runCycle
\* minus the number it handed to servers; the auto-scaling step leaves the
\* queue as it is and the value returned is its length.
C13_ReturnedDepth ==
    [][\A n \in Names :
          /\ Len(loadBalancer'[n].requestQueue) - Len(loadBalancer[n].requestQueue)
                = (Len(handed'[n]) - Len(handed[n]))
                     - (Len(dispatched'[n]) - Len(dispatched[n]))
          /\ Len(handed'[n]) - Len(handed[n])
                = IF IsEnqueueStep(n) THEN Len(filtered[n]) ELSE 0
          /\ IsScaleStep(n) =>
                /\ loadBalancer'[n].requestQueue = loadBalancer[n].requestQueue
                /\ lastCall'.op = "runCycle"
                /\ lastCall'.name = n
                /\ lastCall'.ret = Len(loadBalancer'[n].requestQueue)]_vars

\* A runCycle call that was given requests, dispatched some and returned a
\* depth above zero.
C13_Witness ==
    /\ pc = "pool"
    /\ lbpc = "idle"
    /\ lastCall.op = "runCycle"
    /\ loadBalancer["P"].clockTime = 1
    /\ Len(handed["P"]) = 2
    /\ Len(dispatched["P"]) = 1
    /\ lastCall.ret = 2
    /\ Len(loadBalancer["P"].requestQueue) = 2

\* runCycle of this pool evaluates scaling at its current clockTime.
AtCooldownBoundary(lb) == lb.clockTime % lb.cooldownTime = 0

\* C14: scale-up. On the auto-scaling step of a runCycle whose clockTime is a
\* multiple of cooldownTime, when the queue depth is not below
\* minThreshold * server count and is above maxThreshold * server count, one
\* new ready server is appended: the servers there before are unchanged and
\* keep their places, and the queue is unchanged. With 2 servers,
\* maxThreshold 3 and depth 7 the pool has 3 servers afterwards.
C14_ScaleUp ==
    [][\A n \in Names :
          LET lb    == loadBalancer[n]
              sv    == lb.webServers
              sv2   == loadBalancer'[n].webServers
              depth == Len(lb.requestQueue)
          IN  (/\ IsScaleStep(n)
               /\ AtCooldownBoundary(lb)
               /\ ~(depth < lb.minThreshold * Len(sv))
               /\ depth > lb.maxThreshold * Len(sv))
              => /\ Len(sv2) = Len(sv) + 1
                 /\ SubSeq(sv2, 1, Len(sv)) = sv
                 /\ IsReady(sv2[Len(sv2)])
                 /\ loadBalancer'[n].requestQueue = lb.requestQueue
                 /\ (Len(sv) = 2 /\ lb.maxThreshold = 3 /\ depth = 7)
                       => Len(sv2) = 3]_vars

\* The example of C14 after its runCycle: the pool that had 2 servers,
\* maxThreshold 3 and 7 queued requests at its first auto-scaling step now
\* has 3 servers, the third ready, and still 7 queued requests.
C14_Witness ==
    /\ pc = "pool"
    /\ lbpc = "idle"
    /\ lastCall.op = "runCycle"
    /\ loadBalancer["P"].clockTime = 1
    /\ loadBalancer["P"].maxThreshold = 3
    /\ loadBalancer["P"].minThreshold = 1
    /\ Len(loadBalancer["P"].requestQueue) = 7
    /\ Len(loadBalancer["P"].webServers) = 3
    /\ IsReady(loadBalancer["P"].webServers[3])
    /\ ~IsReady(loadBalancer["P"].webServers[2])

\* The servers of the sequence that are not ready, in stored order.
BusyServers(servers) ==
    LET NotReady(server) == ~IsReady(server)
    IN  SelectSeq(servers, NotReady)

\* C15: scale-down. On the auto-scaling step of a runCycle at a cooldown
\* boundary whose queue depth is below minThreshold * server count, the first
\* ready server in stored order is removed (none when no server is ready)
\* and the others keep their order; on every step the servers that are busy
\* before an auto-scaling step are all still there after it, with their
\* requests and remaining times, and the count of servers is never negative.
C15_ScaleDown ==
    [][\A n \in Names :
          LET lb    == loadBalancer[n]
              sv    == lb.webServers
              sv2   == loadBalancer'[n].webServers
              depth == Len(lb.requestQueue)
              k     == FirstReady(sv, 1)
          IN  /\ Len(sv2) >= 0
              /\ IsScaleStep(n) =>
                    /\ BusyServers(sv2) = BusyServers(sv)
                    /\ (AtCooldownBoundary(lb) /\ depth < lb.minThreshold * Len(sv))
                          => /\ k # 0 => /\ IsReady(sv[k])
                                          /\ \A i \in 1..(k - 1) : ~IsReady(sv[i])
                                          /\ sv2 = SubSeq(sv, 1, k - 1)
                                                      \o SubSeq(sv, k + 1, Len(sv))
                             /\ k = 0 => sv2 = sv]_vars

\* A pool that dispatched to its two servers and then, at the cooldown
\* boundary, removed the second, ready again, while the first, listed before
\* it and still busy with its request, stayed.
C15_Witness ==
    /\ pc = "pool"
    /\ lbpc = "idle"
    /\ lastCall.op = "runCycle"
    /\ loadBalancer["P"].clockTime = 1
    /\ Len(dispatched["P"]) = 2
    /\ dispatched["P"][2].visiting = 2
    /\ Len(loadBalancer["P"].webServers) = 1
    /\ ~IsReady(loadBalancer["P"].webServers[1])
    /\ loadBalancer["P"].webServers[1].currentRequest = dispatched["P"][1].request

\* C16: deallocation with no ready server. For the pool of every state in
\* which no server is ready (all busy, or no server at all) deallocateServer
\* returns the pool unchanged; and an auto-scaling step that invokes it in
\* such a state (cooldown boundary, depth below minThreshold * server count)
\* leaves the servers, their requests and remaining times and the queue as
\* they are, and runCycle returns normally.
C16_NoIdleDeallocation ==
    [][\A n \in Names :
          LET lb    == loadBalancer[n]
              depth == Len(lb.requestQueue)
          IN  FirstReady(lb.webServers, 1) = 0 =>
                 /\ DeallocateServer(lb) = lb
                 /\ (/\ IsScaleStep(n)
                     /\ AtCooldownBoundary(lb)
                     /\ depth < lb.minThreshold * Len(lb.webServers))
                    => /\ loadBalancer'[n] = [lb EXCEPT !.clockTime = @ + 1]
                       /\ lastCall'.op = "runCycle"
                       /\ lastCall'.ret = depth]_vars

\* A runCycle at a cooldown boundary ended with an empty queue and both
\* servers busy: deallocation was invoked and both servers are still there.
C16_Witness ==
    /\ pc = "pool"
    /\ lbpc = "idle"
    /\ lastCall.op = "runCycle"
    /\ loadBalancer["P"].clockTime = 1
    /\ loadBalancer["P"].cooldownTime = 1
    /\ loadBalancer["P"].minThreshold = 1
    /\ loadBalancer["P"].requestQueue = <<>>
    /\ Len(dispatched["P"]) = 2
    /\ Len(loadBalancer["P"].webServers) = 2
    /\ ~IsReady(loadBalancer["P"].webServers[1])
    /\ ~IsReady(loadBalancer["P"].webServers[2])

\* The absolute value of an integer.
Abs(x) == IF x < 0 THEN 0 - x ELSE x

\* C17: cooldown gating. The servers of a pool change only on the
\* auto-scaling step of its runCycle, which ends the cycle and takes
\* clockTime to clockTime + 1; when clockTime is not a multiple of
\* cooldownTime that step leaves the servers as they are, and when it is a
\* multiple the count of servers changes by at most one. Changes of the
\* server count hence happen at different multiples of cooldownTime, at
\* least cooldownTime cycles apart.
C17_CooldownGating ==
    [][\A n \in Names :
          LET lb  == loadBalancer[n]
              sv  == lb.webServers
              sv2 == loadBalancer'[n].webServers
          IN  /\ ~IsScaleStep(n) =>
                    /\ Len(sv2) = Len(sv)
                    /\ \A i \in 1..Len(sv) : GetId(sv2[i]) = GetId(sv[i])
                    /\ loadBalancer'[n].clockTime = lb.clockTime
              /\ IsScaleStep(n) =>
                    /\ loadBalancer'[n].clockTime = lb.clockTime + 1
                    /\ ~AtCooldownBoundary(lb) => sv2 = sv
                    /\ AtCooldownBoundary(lb) => Abs(Len(sv2) - Len(sv)) <= 1]_vars

\* A runCycle with clockTime 1 and cooldownTime 2 ended with servers and a
\* queue deeper than maxThreshold * server count: the depth called for a new
\* server and the cycle was not a cooldown boundary.
C17_Witness ==
    /\ pc = "pool"
    /\ lbpc = "idle"
    /\ lastCall.op = "runCycle"
    /\ loadBalancer["P"].clockTime = 2
    /\ loadBalancer["P"].cooldownTime = 2
    /\ Len(loadBalancer["P"].webServers) >= 1
    /\ Len(loadBalancer["P"].requestQueue)
          > loadBalancer["P"].maxThreshold * Len(loadBalancer["P"].webServers)

\* C18: server id uniqueness. In every state the servers of a pool, those
\* main created and those allocateServer added, have pairwise different
\* ids.
C18_UniqueIds ==
    \A n \in Names :
        \A i, j \in 1..Len(loadBalancer[n].webServers) :
            i # j => GetId(loadBalancer[n].webServers[i])
                        # GetId(loadBalancer[n].webServers[j])

\* C19: server state. With requests of processTime at least 1, in every
\* state every server of every pool is busy exactly when its timeRemaining
\* is above 0, and timeRemaining is never negative.
C19_BusyIffTimeRemaining ==
    \A n \in Names :
        \A i \in 1..Len(loadBalancer[n].webServers) :
            LET server == loadBalancer[n].webServers[i]
            IN  /\ ~IsReady(server) <=> server.timeRemaining > 0
                /\ server.timeRemaining >= 0

\* After the update loop of the first cycle: the first server is busy with
\* one tick left of a request of processTime 2, the second has finished a
\* request of processTime 1 and is ready with no time remaining.
C19_Witness ==
    /\ pc = "pool"
    /\ lbpc = "scale"
    /\ loadBalancer["P"].clockTime = 0
    /\ Len(loadBalancer["P"].webServers) = 2
    /\ ~IsReady(loadBalancer["P"].webServers[1])
    /\ loadBalancer["P"].webServers[1].timeRemaining = 1
    /\ loadBalancer["P"].webServers[1].currentRequest.processTime = 2
    /\ IsReady(loadBalancer["P"].webServers[2])
    /\ loadBalancer["P"].webServers[2].timeRemaining = 0
    /\ loadBalancer["P"].webServers[2].currentRequest.processTime = 1

\* The step is the update loop of pool n.
IsUpdateStep(n) == lbpc = "update" /\ lbpc' = "scale" /\ Cur = n

\* C20: no reassignment of a busy server. Every sendRequest call of a
\* dispatch step puts its request on a server that was ready when the step
\* began and that no other call of the step used; a server that is busy
\* before a step keeps its request over the step, and its timeRemaining
\* changes only by the decrement of the update loop.
C20_NoReassignment ==
    [][\A n \in Names :
          LET sv   == loadBalancer[n].webServers
              sv2  == loadBalancer'[n].webServers
              sent == NewlySent(n)
          IN  /\ \A j \in 1..Len(sent) :
                    /\ sent[j].at \in 1..Len(sv)
                    /\ IsReady(sv[sent[j].at])
                    /\ \A j2 \in 1..Len(sent) : j2 # j => sent[j2].at # sent[j].at
              /\ ~IsScaleStep(n) =>
                    /\ Len(sv2) = Len(sv)
                    /\ \A i \in 1..Len(sv) :
                          ~IsReady(sv[i]) =>
                             /\ sv2[i].currentRequest = sv[i].currentRequest
                             /\ sv2[i].timeRemaining
                                   = IF IsUpdateStep(n) THEN sv[i].timeRemaining - 1
                                     ELSE sv[i].timeRemaining
              /\ IsScaleStep(n) => BusyServers(sv2) = BusyServers(sv)]_vars

\* The second cycle's dispatch handed a request to a server that has the id
\* of the first server, while the first server was busy: the first server
\* still holds the request it was given in the first cycle.
C20_Witness ==
    /\ pc = "pool"
    /\ lbpc = "update"
    /\ loadBalancer["P"].clockTime = 1
    /\ Len(loadBalancer["P"].webServers) >= 2
    /\ Len(dispatched["P"]) >= 2
    /\ ~IsReady(loadBalancer["P"].webServers[1])
    /\ loadBalancer["P"].webServers[1].timeRemaining = 1
    /\ loadBalancer["P"].webServers[1].currentRequest = dispatched["P"][1].request
    /\ \E k \in 2..Len(loadBalancer["P"].webServers) :
          /\ GetId(loadBalancer["P"].webServers[k])
                = GetId(loadBalancer["P"].webServers[1])
          /\ dispatched["P"][Len(dispatched["P"])].visiting = k
          /\ dispatched["P"][Len(dispatched["P"])].at = k
          /\ loadBalancer["P"].webServers[k].currentRequest
                = dispatched["P"][Len(dispatched["P"])].request

\* ------------------------------------------------------------------------
\* Properties of Switch::run
\* ------------------------------------------------------------------------

\* C21: per-tick ordering. A filterRequests call is given the burst and the
\* Switch's clockTime, and neither pool has run its cycle of that tick yet;
\* pool P changes only after the filterRequests call of the tick and before
\* pool S has started; pool S changes only after pool P's runCycle of the
\* tick has returned; the Switch's clockTime advances only by one and only
\* when both pools have finished their runCycle of the tick.
C21_TickOrdering ==
    [][/\ IsFilterStep =>
             /\ lastCall'.clock = clockTime
             /\ lastCall'.requests = rawRequests
             /\ loadBalancer["P"].clockTime = clockTime
             /\ loadBalancer["S"].clockTime = clockTime
       /\ loadBalancer'["P"] # loadBalancer["P"] =>
             /\ lastCall.op = "filterRequests"
             /\ lastCall.clock = clockTime
             /\ loadBalancer["P"].clockTime = clockTime
             /\ loadBalancer["S"].clockTime = clockTime
             /\ loadBalancer'["S"] = loadBalancer["S"]
       /\ loadBalancer'["S"] # loadBalancer["S"] =>
             /\ lastCall.op = "runCycle"
             /\ lastCall.name = "P"
             /\ loadBalancer["P"].clockTime = clockTime + 1
             /\ loadBalancer["S"].clockTime = clockTime
             /\ loadBalancer'["P"] = loadBalancer["P"]
       /\ clockTime' # clockTime =>
             /\ pc = "advance"
             /\ clockTime' = clockTime + 1
             /\ lbpc = "idle"
             /\ lastCall.op = "runCycle"
             /\ lastCall.name = "S"
             /\ loadBalancer["P"].clockTime = clockTime + 1
             /\ loadBalancer["S"].clockTime = clockTime + 1]_vars

\* In the second tick pool P has returned from its runCycle and pool S, given
\* requests, is inside its own, while the Switch's clockTime is still 1.
C21_Witness ==
    /\ pc = "runS"
    /\ lbpc = "dispatch"
    /\ clockTime = 1
    /\ loadBalancer["P"].clockTime = 2
    /\ loadBalancer["S"].clockTime = 1
    /\ lastCall.op = "runCycle"
    /\ lastCall.name = "P"
    /\ Len(handed["S"]) >= 1
    /\ loadBalancer["S"].requestQueue # <<>>

\* The step is the split of `allowed` by job type.
IsPartitionStep == pc = "partition" /\ pc' = "runP"

\* C22: partition by job class. After the split every request of `allowed`
\* is in the vector of its jobType and in no other, each vector holds only
\* requests of `allowed`, the sizes of the vectors sum to the size of
\* `allowed`, and the requests of a vector are in the order they have in
\* `allowed`.
C22_PartitionByClass ==
    [][IsPartitionStep =>
          /\ Len(filtered'["P"]) + Len(filtered'["S"]) = Len(allowed)
          /\ \A i \in 1..Len(allowed) :
                \A n \in Names :
                    allowed[i] \in Range(filtered'[n]) <=> allowed[i].jobType = n
          /\ \A n \in Names :
                /\ Range(filtered'[n]) \subseteq Range(allowed)
                /\ \A a, b \in 1..Len(filtered'[n]) :
                      a < b => PositionIn(allowed, filtered'[n][a])
                                  < PositionIn(allowed, filtered'[n][b])]_vars

\* After the split of a tick in which the firewall admitted a "P" request
\* followed by an "S" request and dropped nothing: one request in each vector.
C22_Witness ==
    /\ pc = "runP"
    /\ lbpc = "enqueue"
    /\ Len(rawRequests) = 2
    /\ Len(allowed) = 2
    /\ allowed[1].jobType = "P"
    /\ allowed[2].jobType = "S"
    /\ filtered["P"] = <<allowed[1]>>
    /\ filtered["S"] = <<allowed[2]>>


\* One whole call lb.runCycle(vec): the object the call leaves behind.
RunCycle(lb, vec) ==
    LET e == EnqueueLoop([queue |-> lb.requestQueue, vec |-> vec])
        d == DispatchLoop([queue |-> e.queue, servers |-> lb.webServers,
                           sent |-> <<>>], 1)
        a == Autoscale([lb EXCEPT !.requestQueue = d.queue,
                                  !.webServers = UpdateAll(d.servers)])
    IN  [a EXCEPT !.clockTime = @ + 1]

\* The two pools after the runCycle calls of one iteration are made in the
\* order first, second on the pools and vectors of t.
RunBoth(t, first, second) ==
    LET one == [t.pools EXCEPT ![first] = RunCycle(@, t.vecs[first])]
    IN  [one EXCEPT ![second] = RunCycle(@, t.vecs[second])]

OtherPool(n) == IF n = "P" THEN "S" ELSE "P"

\* C23: pool independence. A step of runCycle on one pool leaves the other
\* pool (its queue, its servers, its clock) and the firewall as they were,
\* and when the second runCycle call of an iteration returns, the two pools
\* are what the two calls produce from the pools and vectors of the iteration
\* made in the order P, S and also in the order S, P.
C23_PoolIndependence ==
    [][/\ \A n \in Names :
             loadBalancer'[n] # loadBalancer[n]
                 => /\ Cur = n
                    /\ lbpc # "idle"
                    /\ loadBalancer'[OtherPool(n)] = loadBalancer[OtherPool(n)]
                    /\ firewall' = firewall
       /\ (pc = "runS" /\ pc' = "advance")
             => /\ loadBalancer' = RunBoth(tickStart, "P", "S")
                /\ loadBalancer' = RunBoth(tickStart, "S", "P")]_vars

\* Both pools were given a request in the iteration and both changed in it.
C23_Witness ==
    /\ pc = "advance"
    /\ tickStart # NoTick
    /\ \A n \in Names :
          /\ tickStart.vecs[n] # <<>>
          /\ loadBalancer[n] # tickStart.pools[n]
          /\ loadBalancer[n].webServers # tickStart.pools[n].webServers
    /\ loadBalancer = RunBoth(tickStart, "S", "P")

\* The filterRequests calls made, in order.
FilterCalls == SelectSeq(calls, LAMBDA c : c.op = "filterRequests")

\* The runCycle calls made on pool n, in order.
RunCycleCalls(n) ==
    SelectSeq(calls, LAMBDA c : c.op = "runCycle" /\ c.name = n)

\* The statements of one iteration of Switch::run that are still to be
\* executed at a position, the runCycle calls counted by their four parts.
StepsOfTick == 12

PositionRank ==
    CASE pc = "generate"  -> 12
      [] pc = "filter"    -> 11
      [] pc = "partition" -> 10
      [] pc \in {"runP", "runS"} ->
             (IF pc = "runP" THEN 5 ELSE 1)
                 + (CASE lbpc = "enqueue"  -> 4
                      [] lbpc = "dispatch" -> 3
                      [] lbpc = "update"   -> 2
                      [] lbpc = "scale"    -> 1
                      [] OTHER -> 0)
      [] pc = "advance"   -> 1
      [] OTHER -> 0

\* The number of statements run(clockCycles) still has to execute: the rest
\* of this iteration, the iterations after it, and the summary.
StepsLeft ==
    IF pc = "done" THEN 0
    ELSE (clockCycles - clockTime - 1) * StepsOfTick + PositionRank + 1

\* The statement at the current position can be executed: no statement of
\* Switch::run or runCycle waits for anything.
CanStep ==
    \/ pc = "generate" /\ clockTime < clockCycles
    \/ pc = "generate" /\ clockTime >= clockCycles
    \/ pc \in {"filter", "partition", "advance"}
    \/ pc \in {"runP", "runS"}
           /\ lbpc \in {"enqueue", "dispatch", "update", "scale"}

\* C24: run(clockCycles) ends: a statement can be executed until the run is
\* done, and every statement executed lowers by one the natural number of
\* statements left. When it has ended it has made exactly clockCycles
\* iterations: filterRequests was called clockCycles times, with the clock
\* values 0, 1, ..., clockCycles - 1 in this order, and runCycle was called
\* clockCycles times on each pool, whatever the sizes of the bursts were.
C24_RunTerminates ==
    /\ [](/\ StepsLeft \in Nat
          /\ pc # "done" => CanStep /\ StepsLeft > 0)
    /\ [][StepsLeft' = StepsLeft - 1]_vars
    /\ [](pc = "done" =>
            /\ clockTime = clockCycles
            /\ Len(FilterCalls) = clockCycles
            /\ \A i \in 1..Len(FilterCalls) : FilterCalls[i].clock = i - 1
            /\ \A n \in Names :
                  /\ Len(RunCycleCalls(n)) = clockCycles
                  /\ loadBalancer[n].clockTime = clockCycles)

\* A finished run of MaxTicks iterations in which an empty burst was
\* filtered and both pools were run on an empty vector.
C24_Witness ==
    /\ pc = "done"
    /\ clockCycles = MaxTicks
    /\ Len(FilterCalls) = MaxTicks
    /\ \E i \in 1..Len(FilterCalls) : FilterCalls[i].size = 0
    /\ \E i \in 1..Len(FilterCalls) : FilterCalls[i].size > 0
    /\ \A n \in Names :
          \E i \in 1..Len(RunCycleCalls(n)) : RunCycleCalls(n)[i].size = 0

\* ------------------------------------------------------------------------
\* SpecWindow: one Firewall object with the three rules of Switch::Switch,
\* constructed with one of WindowParams and driven as Switch::run drives it
\* for WindowTicks ticks, long enough for windows of 2 and 3 ticks to end
\* and start again.
\* ------------------------------------------------------------------------

\* Number of ticks explored in SpecWindow.
WindowTicks == 4

\* (dosRateLimit, dosWindowSize) pairs of SpecWindow.
WindowParams == {<<1, 2>>, <<2, 3>>, <<0, 2>>, <<1, 0>>}

\* The source addresses of the bursts of SpecWindow.
WindowBursts ==
    {<<>>, <<SrcA>>, <<SrcA, SrcA>>, <<SrcPrivate, SrcA, SrcB>>,
     <<SrcB, SrcPrivate>>}

InitWindow ==
    /\ \E prm \in WindowParams :
          firewall = WithSwitchRanges(NewFirewall(prm[1], prm[2]))
    /\ FirewallAlone
    /\ HistoryEmpty
    /\ clockTime = 0
    /\ clockCycles = WindowTicks
    /\ pc = "window"

\* firewall.filterRequests(requests, clockTime, logFile), then clockTime++
WdFilterRequests ==
    /\ pc = "window"
    /\ clockTime < clockCycles
    /\ \E srcs \in WindowBursts :
          LET requests == BurstOf(srcs, clockTime)
              r == FilterRequests(firewall, requests, clockTime)
          IN  /\ firewall' = r.fw
              /\ lastCall' = [op |-> "filterRequests", requests |-> requests,
                              clock |-> clockTime, ret |-> r.allowed]
              /\ passedIn' = passedIn + Len(requests)
              /\ returned' = returned + Len(r.allowed)
              /\ calls' = Append(calls, [op |-> "filterRequests",
                                         clock |-> clockTime,
                                         size |-> Len(requests),
                                         ret |-> r.allowed])
    /\ clockTime' = clockTime + 1
    /\ UNCHANGED <<pc, rangeCalls, admitted, tickStart>>
    /\ UNCHANGED swVars
    /\ UNCHANGED lbVars

NextWindow == WdFilterRequests

SpecWindow == InitWindow /\ [][NextWindow]_vars

\* ------------------------------------------------------------------------
\* Properties of the window and of the checks of filterRequests (SpecWindow)
\* ------------------------------------------------------------------------

\* The count ipRequestCount holds for a source, 0 when it has no entry.
CounterOf(fw, src) ==
    IF src \in DOMAIN fw.ipRequestCount THEN fw.ipRequestCount[src] ELSE 0

\* The sources of the requests of q that the rate check counts when the
\* call starts on fw: those no rule matches and that are not auto-blocked.
CountedSources(fw, q) ==
    {q[i].IPin : i \in 1..Len(q)}
        \ {src \in {q[i].IPin : i \in 1..Len(q)} :
               IsInBlockedRange(fw, src) \/ IsAutoBlocked(fw, src)}

\* C25: window reset. A filterRequests call with clock value c clears
\* ipRequestCount before it examines a request exactly when dosWindowSize > 0,
\* c is a multiple of dosWindowSize and c is not 0: after such a call the
\* map holds entries for the sources counted in this call only, with the
\* counts of this call; after any other call it holds the entries it had
\* and those of this call, the counts added up. The reset changes neither
\* autoBlockedIps nor blockedRanges nor totalBlocked.
C25_WindowReset ==
    [][IsFilterStep =>
          LET c == lastCall'.clock
              reqs == lastCall'.requests
              size == firewall.dosWindowSize
              due == size > 0 /\ c % size = 0 /\ c # 0
              before(src) == IF due THEN 0 ELSE CounterOf(firewall, src)
              counted == CountedSources(firewall, reqs)
          IN  /\ DOMAIN firewall'.ipRequestCount
                    = (IF due THEN {} ELSE DOMAIN firewall.ipRequestCount)
                          \cup counted
              /\ \A src \in DOMAIN firewall'.ipRequestCount :
                    firewall'.ipRequestCount[src]
                        = IF src \in counted
                          THEN Min(before(src) + CountFrom(reqs, Len(reqs), src),
                                   firewall.dosRateLimit + 1)
                          ELSE before(src)
              /\ reqs = <<>> =>
                    firewall' = IF due
                                THEN [firewall EXCEPT
                                         !.ipRequestCount = [k \in {} |-> 0]]
                                ELSE firewall
              /\ firewall'.blockedRanges = firewall.blockedRanges
              /\ IsPrefix(firewall.autoBlockedIps, firewall'.autoBlockedIps)
              /\ firewall'.totalBlocked
                    = firewall.totalBlocked + Len(reqs) - Len(lastCall'.ret)]_vars

\* A window of 2 ticks in which a source was admitted and another was
\* auto-blocked has ended: the call at clock 2, given no request, left the
\* map empty, the auto-blocked source and totalBlocked in place.
C25_Witness ==
    /\ firewall.dosWindowSize = 2
    /\ firewall.dosRateLimit = 1
    /\ lastCall.op = "filterRequests"
    /\ lastCall.clock = 2
    /\ lastCall.requests = <<>>
    /\ Len(calls) = 3
    /\ calls[1].size = 3
    /\ Len(calls[1].ret) = 2
    /\ calls[2].size = 2
    /\ Len(calls[2].ret) = 0
    /\ DOMAIN firewall.ipRequestCount = {}
    /\ AutoBlockedSet(firewall) = {SrcA}
    /\ firewall.totalBlocked = 3

\* The sources whose requests a call starting on fw drops at check 1 or at
\* check 2.
DroppedByCheck(fw) ==
    {src \in Sources : IsInBlockedRange(fw, src) \/ IsAutoBlocked(fw, src)}

\* C26: check precedence. A filterRequests call leaves, for every source a
\* rule matches or that is auto-blocked when the call starts, the entry of
\* ipRequestCount as the window reset left it and the occurrences in
\* autoBlockedIps as they were, and returns none of its requests; a call
\* whose requests all come from such sources changes ipRequestCount by the
\* window reset only and autoBlockedIps not at all. So after every call a
\* source that a rule matches has no entry in ipRequestCount and is not in
\* autoBlockedIps.
C26_CheckPrecedence ==
    [][IsFilterStep =>
          LET c == lastCall'.clock
              reqs == lastCall'.requests
              ret == lastCall'.ret
              size == firewall.dosWindowSize
              due == size > 0 /\ c % size = 0 /\ c # 0
              dropped == DroppedByCheck(firewall)
          IN  /\ \A src \in dropped :
                    /\ src \in DOMAIN firewall'.ipRequestCount
                          <=> (~due /\ src \in DOMAIN firewall.ipRequestCount)
                    /\ src \in DOMAIN firewall'.ipRequestCount
                          => firewall'.ipRequestCount[src]
                                 = firewall.ipRequestCount[src]
                    /\ Occurrences(firewall'.autoBlockedIps, src)
                          = Occurrences(firewall.autoBlockedIps, src)
                    /\ \A k \in 1..Len(ret) : ret[k].IPin # src
              /\ (\A i \in 1..Len(reqs) : reqs[i].IPin \in dropped)
                    => /\ firewall'.ipRequestCount
                             = IF due THEN [k \in {} |-> 0]
                               ELSE firewall.ipRequestCount
                       /\ firewall'.autoBlockedIps = firewall.autoBlockedIps
                       /\ ret = <<>>
                       /\ firewall'.totalBlocked
                             = firewall.totalBlocked + Len(reqs)
              /\ \A src \in Sources :
                    IsInBlockedRange(firewall', src)
                        => /\ src \notin DOMAIN firewall'.ipRequestCount
                           /\ ~IsAutoBlocked(firewall', src)]_vars

\* Without a window: a request of a matched source was dropped at tick 0,
\* SrcA was auto-blocked at tick 1, and the call at tick 2 dropped one more
\* request of SrcA at check 2: the counts are those of tick 1.
C26_Witness ==
    /\ firewall.dosWindowSize = 0
    /\ firewall.dosRateLimit = 1
    /\ lastCall.op = "filterRequests"
    /\ lastCall.clock = 2
    /\ Len(lastCall.requests) = 1
    /\ lastCall.requests[1].IPin = SrcA
    /\ lastCall.ret = <<>>
    /\ Len(calls) = 3
    /\ calls[1].size = 3
    /\ calls[2].size = 2
    /\ DOMAIN firewall.ipRequestCount = {SrcA, SrcB}
    /\ firewall.ipRequestCount[SrcA] = 2
    /\ firewall.ipRequestCount[SrcB] = 1
    /\ firewall.autoBlockedIps = <<SrcA>>
    /\ IsInBlockedRange(firewall, SrcPrivate)
    /\ firewall.totalBlocked = 4

\* Number of requests of source src that the filterRequests calls number a
\* to b of the log returned (call number i is the call of tick i - 1).
RECURSIVE AdmittedInSpan(_, _, _)
AdmittedInSpan(a, b, src) ==
    IF a > b THEN 0
    ELSE CountFrom(FilterCalls[b].ret, Len(FilterCalls[b].ret), src)
             + AdmittedInSpan(a, b - 1, src)

\* C27: rolling-window rate limit. For every source and every dosWindowSize
\* consecutive ticks, wherever they start, filterRequests returned at most
\* dosRateLimit requests of the source in these ticks.
C27_RollingWindow ==
    \A src \in Sources :
        \A a \in 1..Len(FilterCalls) :
            LET b == a + firewall.dosWindowSize - 1
            IN  (firewall.dosWindowSize > 0 /\ b <= Len(FilterCalls))
                    => AdmittedInSpan(a, b, src) <= firewall.dosRateLimit

\* C28: with dosRateLimit >= 0, in every state no source occurs twice in
\* autoBlockedIps, no count of ipRequestCount is above dosRateLimit + 1 and
\* a source whose count is dosRateLimit + 1 is in autoBlockedIps; and a
\* filterRequests call adds a source to autoBlockedIps exactly when it takes
\* the count of the source, in the window of the call, to dosRateLimit + 1.
\* autoBlockedIps is empty at the start, so a source is in it exactly when
\* its count reached dosRateLimit + 1 in some window.
C28_AutoBlockInvariant ==
    /\ [](firewall.dosRateLimit >= 0 =>
            \A src \in Sources :
                /\ Occurrences(firewall.autoBlockedIps, src) <= 1
                /\ CounterOf(firewall, src) <= firewall.dosRateLimit + 1
                /\ CounterOf(firewall, src) = firewall.dosRateLimit + 1
                      => IsAutoBlocked(firewall, src))
    /\ [][(IsFilterStep /\ firewall.dosRateLimit >= 0) =>
             \A src \in Sources :
                 (IsAutoBlocked(firewall', src) /\ ~IsAutoBlocked(firewall, src))
                     <=> /\ CounterOf(firewall', src) = firewall.dosRateLimit + 1
                         /\ WindowCount(firewall, lastCall'.clock, src)
                               <= firewall.dosRateLimit]_vars

\* SrcA passed twice at tick 0, was auto-blocked at tick 1 by its third
\* request, and sent two more at tick 2: it is in autoBlockedIps once and
\* its count is dosRateLimit + 1.
C28_Witness ==
    /\ firewall.dosRateLimit = 2
    /\ firewall.dosWindowSize = 3
    /\ lastCall.op = "filterRequests"
    /\ lastCall.clock = 2
    /\ Len(lastCall.requests) = 2
    /\ lastCall.ret = <<>>
    /\ Len(calls) = 3
    /\ Len(calls[1].ret) = 2
    /\ calls[2].size = 1
    /\ firewall.autoBlockedIps = <<SrcA>>
    /\ firewall.ipRequestCount[SrcA] = 3
    /\ firewall.totalBlocked = 3

\* ------------------------------------------------------------------------
\* Properties of the stored ranges (SpecCidr)
\* ------------------------------------------------------------------------

\* C29: every range of blockedRanges satisfies network = network & mask;
\* the range blockRange("a/p") stores has the top p bits of a and zeros
\* below them, whatever the host bits of a are; and no step changes or
\* removes a stored range: blockedRanges only grows at its end.
C29_StoredRangeNormalised ==
    /\ [](\A i \in 1..Len(firewall.blockedRanges) :
             LET range == firewall.blockedRanges[i]
             IN  And32(range.network, range.mask) = range.network)
    /\ [](rangeCalls # <<>> =>
             LET range == firewall.blockedRanges[Len(firewall.blockedRanges)]
                 a == rangeCalls[1].addr
                 p == rangeCalls[1].prefix
             IN  /\ range.label = rangeCalls[1].cidr
                 /\ \A k \in 1..32 :
                       BitOf(range.network, k) = IF k <= p THEN BitOf(a, k) ELSE 0)
    /\ [][IsPrefix(firewall.blockedRanges, firewall'.blockedRanges)]_vars

\* The rule 203.0.113.77/20 was added after the three rules of
\* Switch::Switch and stored as 203.0.112.0 with mask 255.255.240.0; a probe
\* followed and the four ranges are in place.
C29_Witness ==
    /\ lastCall.op = "isInBlockedRange"
    /\ Len(firewall.blockedRanges) = 4
    /\ rangeCalls[1].addr = <<203, 0, 113, 77>>
    /\ rangeCalls[1].prefix = 20
    /\ firewall.blockedRanges[4].network = <<203, 0, 112, 0>>
    /\ firewall.blockedRanges[4].mask = <<255, 255, 240, 0>>
    /\ firewall.blockedRanges[1].network = <<10, 0, 0, 0>>

\* 2^n
RECURSIVE PowerOfTwo(_)
PowerOfTwo(n) == IF n = 0 THEN 1 ELSE 2 * PowerOfTwo(n - 1)

\* The high and the low 16 bits of a 32-bit value, as numbers.
HighHalf(x) == x[1] * 256 + x[2]
LowHalf(x) == x[3] * 256 + x[4]

\* The shift count of the mask expression, for a prefix that is not 0.
ShiftCount(prefix) == 32 - prefix

\* C30: mask arithmetic. The mask blockRange stores for prefix p in 0..32
\* is 2^32 - 2^(32-p), written here by halves of 16 bits: 2^16 - 2^(16-p)
\* over 0 for p <= 16, and 2^16 - 1 over 2^16 - 2^(32-p) above. The shift the
\* expression performs is by 0 to 31 bits. With prefix 0 the mask is 0 and
\* every probe is matched; with prefix 32 the mask is 0xFFFFFFFF and the
\* rule, when it is the only one, matches the rule's address and no other.
C30_MaskArithmetic ==
    rangeCalls # <<>> =>
        LET range == firewall.blockedRanges[Len(firewall.blockedRanges)]
            a == rangeCalls[1].addr
            p == rangeCalls[1].prefix
            probed == lastCall.op = "isInBlockedRange"
        IN  /\ HighHalf(range.mask)
                  = IF p <= 16 THEN 65536 - PowerOfTwo(16 - p) ELSE 65535
            /\ LowHalf(range.mask)
                  = IF p <= 16 THEN 0 ELSE 65536 - PowerOfTwo(32 - p)
            /\ p # 0 => ShiftCount(p) \in 0..31
            /\ p = 0 => /\ range.mask = Zero32
                        /\ probed => lastCall.ret
            /\ p = 32 => /\ range.mask = <<255, 255, 255, 255>>
                         /\ (probed /\ Len(firewall.blockedRanges) = 1)
                               => (lastCall.ret <=> lastCall.addr = a)

\* The rule 203.0.113.77/32 as the only rule: the mask is 0xFFFFFFFF and
\* the address that differs in the last bit is not matched.
C30_Witness ==
    /\ lastCall.op = "isInBlockedRange"
    /\ Len(firewall.blockedRanges) = 1
    /\ rangeCalls[1].addr = <<203, 0, 113, 77>>
    /\ rangeCalls[1].prefix = 32
    /\ firewall.blockedRanges[1].mask = <<255, 255, 255, 255>>
    /\ lastCall.addr = <<203, 0, 113, 76>>
    /\ ~lastCall.ret

\* ------------------------------------------------------------------------
\* SpecDrain: one LoadBalancer ("P") run for DrainTicks cycles. It starts
\* with up to MaxServers idle servers and up to DrainQueue queued requests,
\* under a configuration of DrainConfigs, and is given at most one non-empty
\* vector, in one of its first ArrivalTicks cycles; every other cycle gets
\* an empty vector.
\* ------------------------------------------------------------------------

\* Number of runCycle calls explored in SpecDrain.
DrainTicks == 10

\* Number of cycles at the start of a run of SpecDrain in which requests
\* may arrive.
ArrivalTicks == 2

\* Largest initial queue of SpecDrain.
DrainQueue == 3

\* Configurations of SpecDrain: every cycle a scaling cycle, every second
\* cycle a scaling cycle, and minThreshold above maxThreshold.
DrainConfigs ==
    {[minThreshold |-> 1, maxThreshold |-> 2, cooldownTime |-> 1],
     [minThreshold |-> 1, maxThreshold |-> 1, cooldownTime |-> 2],
     [minThreshold |-> 3, maxThreshold |-> 1, cooldownTime |-> 1]}

\* The processing times of the vector that arrives.
ArrivalCosts == {<<1>>, <<MaxProcessTime, 1>>}

InitDrain ==
    /\ firewall = NewFirewall(SwitchRateLimit, SwitchWindowSize)
    /\ \E n \in 0..MaxServers, len \in 0..DrainQueue, c \in ProcessTimes,
          cfg \in DrainConfigs :
          loadBalancer =
              [name \in Names |->
                  IF name = "P"
                  THEN NewLoadBalancer(BatchOf(CostRun(len, c), -1, "P"),
                                       ServersFrom(0, n), "P", cfg.minThreshold,
                                       cfg.maxThreshold, cfg.cooldownTime)
                  ELSE IdlePool(name)]
    /\ rawRequests = <<>>
    /\ allowed = <<>>
    /\ filtered = [n \in Names |-> <<>>]
    /\ lbpc = "idle"
    /\ HistoryEmpty
    /\ clockTime = 0
    /\ clockCycles = DrainTicks
    /\ pc = "drain"

\* The caller calls runCycle with an empty vector, or with the one vector of
\* requests of the run.
DrainRunCycle ==
    /\ pc = "drain"
    /\ lbpc = "idle"
    /\ loadBalancer["P"].clockTime < clockCycles
    /\ \/ filtered' = [filtered EXCEPT !["P"] = <<>>]
       \/ /\ loadBalancer["P"].clockTime < ArrivalTicks
          /\ handed["P"] = <<>>
          /\ \E costs \in ArrivalCosts :
                filtered' = [filtered EXCEPT
                               !["P"] = BatchOf(costs, loadBalancer["P"].clockTime, "P")]
    /\ tickStart' = [pools |-> loadBalancer, vecs |-> filtered']
    /\ lbpc' = "enqueue"
    /\ UNCHANGED <<firewall, loadBalancer, clockTime, swVars, pc, lastCall,
                   rangeCalls, passedIn, returned, admitted, calls,
                   handed, dispatched>>

NextDrain == DrainRunCycle \/ LbEnqueue \/ LbDispatch \/ LbUpdate \/ LbScale

SpecDrain == InitDrain /\ [][NextDrain]_vars

\* ------------------------------------------------------------------------
\* Properties of long pool runs (SpecDrain)
\* ------------------------------------------------------------------------

\* C31: scaling precedence. On the auto-scaling step of a cycle at a
\* cooldown boundary, when the queue depth is both below minThreshold *
\* server count and above maxThreshold * server count, the pool does what
\* deallocation does and nothing else: the first ready server is removed,
\* or, when no server is ready, the servers stay as they are; no server is
\* added and the queue is unchanged.
C31_ScalingPrecedence ==
    [][\A n \in Names :
          LET lb    == loadBalancer[n]
              sv    == lb.webServers
              sv2   == loadBalancer'[n].webServers
              depth == Len(lb.requestQueue)
              idle  == IdleFrom(sv, 1)
          IN  (/\ IsScaleStep(n)
               /\ AtCooldownBoundary(lb)
               /\ depth < lb.minThreshold * Len(sv)
               /\ depth > lb.maxThreshold * Len(sv))
              => /\ sv2 = IF idle = <<>> THEN sv ELSE EraseAt(sv, idle[1])
                 /\ Len(sv2) <= Len(sv)
                 /\ loadBalancer'[n].requestQueue = lb.requestQueue]_vars

\* minThreshold 3, maxThreshold 1, one server: after the first cycle the
\* server is busy and 2 requests are queued, so the auto-scaling step of the
\* cycle met 2 < 3 and 2 > 1 with no ready server, and the pool still has
\* its one server.
C31_Witness ==
    /\ pc = "drain"
    /\ lbpc = "idle"
    /\ lastCall.op = "runCycle"
    /\ loadBalancer["P"].clockTime = 1
    /\ loadBalancer["P"].minThreshold = 3
    /\ loadBalancer["P"].maxThreshold = 1
    /\ Len(loadBalancer["P"].webServers) = 1
    /\ ~IsReady(loadBalancer["P"].webServers[1])
    /\ Len(loadBalancer["P"].requestQueue) = 2
    /\ handed["P"] = <<>>

\* C32: a pool without servers and with positive thresholds. Its dispatch
\* step hands out nothing and leaves the queue as it is. Its auto-scaling
\* step, whose tests compare the depth with the products minThreshold * 0
\* and maxThreshold * 0, leaves the queue as it is and: at a cooldown
\* boundary with an empty queue, leaves the pool without servers; at a
\* cooldown boundary with a non-empty queue, gives it exactly one new, ready
\* server; at any other clock value, leaves it without servers. The step
\* always advances the pool's clock by one.
C32_ZeroServers ==
    [][\A n \in Names :
          LET lb  == loadBalancer[n]
              lb2 == loadBalancer'[n]
          IN  (/\ lb.webServers = <<>>
               /\ lb.minThreshold > 0
               /\ lb.maxThreshold > 0) =>
                 /\ IsDispatchStep(n)
                       => /\ lb2 = lb
                          /\ NewlySent(n) = <<>>
                 /\ IsScaleStep(n)
                       => /\ lb2.requestQueue = lb.requestQueue
                          /\ lb2.clockTime = lb.clockTime + 1
                          /\ lb2.webServers =
                                IF /\ AtCooldownBoundary(lb)
                                   /\ lb.requestQueue # <<>>
                                THEN <<NewWebServer(lb.clockTime)>>
                                ELSE <<>>]_vars

\* With cooldownTime 2: a request arrived at clock 1 in a pool without
\* servers and stayed queued over that cycle; the cycle at clock 2 allocated
\* the server with id 2, and the request is still queued after it.
C32_Witness ==
    /\ pc = "drain"
    /\ lbpc = "idle"
    /\ loadBalancer["P"].cooldownTime = 2
    /\ loadBalancer["P"].clockTime = 3
    /\ loadBalancer["P"].webServers = <<NewWebServer(2)>>
    /\ Len(loadBalancer["P"].requestQueue) = 1
    /\ Len(handed["P"]) = 1
    /\ handed["P"][1].uid.tick = 1
    /\ dispatched["P"] = <<>>

\* The number of update calls the servers of pool n have had since the
\* dispatch loop of the cycle that made sendRequest call e.
UpdatesSince(n, e) ==
    (loadBalancer[n].clockTime - e.cycle)
        + (IF Cur = n /\ lbpc = "scale" THEN 1 ELSE 0)

\* The successful sendRequest calls of pool n that handed out request r.
AssignmentsOf(n, r) ==
    {k \in 1..Len(dispatched[n]) :
        dispatched[n][k].ret /\ dispatched[n][k].request = r}

\* C33: server countdown. A server given a request of processTime c >= 1 is
\* busy while it has had fewer than c update calls since, its timeRemaining
\* being c minus their number, and is ready from the c-th on: the update of
\* the assigning cycle t is the first, so the server is busy in the
\* dispatch loops of cycles t+1 .. t+c-1 and ready in that of cycle t+c. A
\* server given a request of processTime 1 is ready again in the
\* auto-scaling step of the same cycle. update leaves a ready server as it
\* is.
C33_ServerCountdown ==
    /\ [](\A n \in Names :
             \A i \in 1..Len(loadBalancer[n].webServers) :
                 LET server == loadBalancer[n].webServers[i]
                     r == server.currentRequest
                 IN  /\ ~IsReady(server) =>
                           \E k \in AssignmentsOf(n, r) :
                               LET u == UpdatesSince(n, dispatched[n][k])
                               IN  /\ u < r.processTime
                                   /\ server.timeRemaining = r.processTime - u
                     /\ (IsReady(server) /\ r # DefaultRequest) =>
                           \E k \in AssignmentsOf(n, r) :
                               UpdatesSince(n, dispatched[n][k]) >= r.processTime)
    /\ [](lbpc = "scale" =>
             \A k \in 1..Len(dispatched[Cur]) :
                 LET e == dispatched[Cur][k]
                 IN  (/\ e.ret
                      /\ e.cycle = loadBalancer[Cur].clockTime
                      /\ e.request.processTime = 1)
                     => /\ IsReady(loadBalancer[Cur].webServers[e.at])
                        /\ loadBalancer[Cur].webServers[e.at].currentRequest
                              = e.request)
    /\ [][\A n \in Names :
             IsUpdateStep(n) =>
                \A i \in 1..Len(loadBalancer[n].webServers) :
                    IsReady(loadBalancer[n].webServers[i])
                        => loadBalancer'[n].webServers[i]
                               = loadBalancer[n].webServers[i]]_vars

\* The first server was given a request of processTime 2 in cycle 0, was
\* passed over in cycle 1 and was given its next request in cycle 2.
C33_Witness ==
    /\ pc = "drain"
    /\ lbpc = "update"
    /\ loadBalancer["P"].clockTime = 2
    /\ Len(dispatched["P"]) = 2
    /\ dispatched["P"][1].cycle = 0
    /\ dispatched["P"][1].at = 1
    /\ dispatched["P"][1].request.processTime = 2
    /\ dispatched["P"][2].cycle = 2
    /\ dispatched["P"][2].at = 1
    /\ Len(loadBalancer["P"].requestQueue) >= 1
    /\ ~IsReady(loadBalancer["P"].webServers[1])

\* C34: nothing is lost between pop and assignment. In every dispatch step
\* the requests taken from the front of the queue are, in order, the
\* requests of the sendRequest calls of the step; every such call returns
\* true and puts its request on the server the loop is visiting, where it
\* is after the step. This holds also when servers of the pool share an id.
C34_PoppedIsAssigned ==
    [][\A n \in Names :
          IsDispatchStep(n) =>
             LET lb   == loadBalancer[n]
                 lb2  == loadBalancer'[n]
                 sent == NewlySent(n)
             IN  /\ lb.requestQueue
                       = [k \in 1..Len(sent) |-> sent[k].request]
                             \o lb2.requestQueue
                 /\ \A k \in 1..Len(sent) :
                       /\ sent[k].ret
                       /\ sent[k].at = sent[k].visiting
                       /\ IsReady(lb.webServers[sent[k].visiting])
                       /\ lb2.webServers[sent[k].visiting].currentRequest
                             = sent[k].request
                       /\ ~IsReady(lb2.webServers[sent[k].visiting])]_vars

\* Two servers of the pool have the same id, both were ready and both were
\* given a request in the dispatch step just made, each its own.
C34_Witness ==
    /\ lbpc = "update"
    /\ Len(loadBalancer["P"].webServers) = 2
    /\ GetId(loadBalancer["P"].webServers[1]) = GetId(loadBalancer["P"].webServers[2])
    /\ Len(dispatched["P"]) >= 3
    /\ LET last == dispatched["P"][Len(dispatched["P"])]
           prev == dispatched["P"][Len(dispatched["P"]) - 1]
       IN  /\ last.cycle = loadBalancer["P"].clockTime
           /\ prev.cycle = loadBalancer["P"].clockTime
           /\ prev.visiting = 1 /\ prev.at = 1 /\ prev.ret
           /\ last.visiting = 2 /\ last.at = 2 /\ last.ret
           /\ loadBalancer["P"].webServers[2].currentRequest = last.request

\* ------------------------------------------------------------------------
\* Properties of the pools over a run (Spec)
\* ------------------------------------------------------------------------

\* Number of sendRequest calls of pool n that returned true.
Assigned(n) ==
    Cardinality({k \in 1..Len(dispatched[n]) : dispatched[n][k].ret})

\* The queue length of pool n plus the assignments it has made minus the
\* requests it has been passed: the queue length it was constructed with,
\* if requests are conserved.
Balance(n) == Len(loadBalancer[n].requestQueue) + Assigned(n) - Len(handed[n])

\* C35: request-count conservation. No step changes, for any pool, the
\* queue length plus the number of assignments made minus the number of
\* requests passed to runCycle; no request was passed and no assignment made
\* at the start, so at any time the initial queue length plus the requests
\* passed equals the queue length plus the assignments. The update loop and
\* the auto-scaling step leave the queue as it is.
C35_CountConservation ==
    [][\A n \in Names :
          /\ Balance(n)' = Balance(n)
          /\ (IsUpdateStep(n) \/ IsScaleStep(n))
                => loadBalancer'[n].requestQueue = loadBalancer[n].requestQueue]_vars

\* The run is over; pool P, constructed with one server and one queued
\* request, was passed five requests in one vector, has made assignments,
\* allocated a server and still has requests queued.
C35_Witness ==
    /\ pc = "done"
    /\ Len(handed["P"]) >= 5
    /\ Assigned("P") >= 2
    /\ Len(loadBalancer["P"].requestQueue) >= 4
    /\ Len(loadBalancer["P"].webServers) = 2
    /\ Len(handed["S"]) >= 1
    /\ Balance("P") = 1

\* C36: clock lockstep. Whenever Switch::run is at the start of an
\* iteration, before its runCycle calls, the clockTime of each pool equals
\* the clockTime of the Switch, and the pools have the same cooldownTime. So
\* the auto-scaling step of either pool in an iteration evaluates scaling
\* exactly when the Switch's clockTime is a multiple of cooldownTime, 0
\* included, and a server the step allocates gets the Switch's clockTime as
\* its id.
C36_ClockLockstep ==
    /\ [](/\ loadBalancer["P"].cooldownTime = loadBalancer["S"].cooldownTime
          /\ pc \in {"generate", "filter", "partition"}
                => \A n \in Names : loadBalancer[n].clockTime = clockTime)
    /\ [][\A n \in Names :
             IsScaleStep(n) =>
                LET lb  == loadBalancer[n]
                    sv  == lb.webServers
                    sv2 == loadBalancer'[n].webServers
                IN  /\ lb.clockTime = clockTime
                    /\ AtCooldownBoundary(lb)
                          <=> clockTime % lb.cooldownTime = 0
                    /\ (sv2 # sv /\ clockTime = 0) => AtCooldownBoundary(lb)
                    /\ Len(sv2) > Len(sv)
                          => GetId(sv2[Len(sv2)]) = clockTime]_vars

\* Two iterations are done: pool P, constructed without servers, allocated
\* a server in iteration 0 and one in iteration 1, with the ids 0 and 1, and
\* both pools' clocks are at 2 like the clock of the Switch.
C36_Witness ==
    /\ pc = "generate"
    /\ clockTime = 2
    /\ loadBalancer["P"].clockTime = 2
    /\ loadBalancer["S"].clockTime = 2
    /\ Len(loadBalancer["P"].webServers) = 2
    /\ GetId(loadBalancer["P"].webServers[1]) = 0
    /\ GetId(loadBalancer["P"].webServers[2]) = 1
    /\ loadBalancer["S"].webServers = <<>>

\* The pool as the runCycle call in progress leaves it at its return; the
\* pool itself between two calls.
PoolAtReturn ==
    LET lb == loadBalancer["P"]
        FromUpdate(p) ==
            [Autoscale([p EXCEPT !.webServers = UpdateAll(@)])
                EXCEPT !.clockTime = @ + 1]
        FromDispatch(p) ==
            LET d == DispatchLoop([queue |-> p.requestQueue,
                                   servers |-> p.webServers, sent |-> <<>>], 1)
            IN  FromUpdate([p EXCEPT !.requestQueue = d.queue,
                                     !.webServers = d.servers])
    IN  CASE lbpc = "idle"     -> lb
          [] lbpc = "enqueue"  -> RunCycle(lb, filtered["P"])
          [] lbpc = "dispatch" -> FromDispatch(lb)
          [] lbpc = "update"   -> FromUpdate(lb)
          [] lbpc = "scale"    -> [Autoscale(lb) EXCEPT !.clockTime = @ + 1]

\* A number of runCycle calls in which a pool with this queue, cooldownTime
\* and processing times up to MaxProcessTime has handed out every request:
\* a request waits at most for a busy server to become ready, for the next
\* cooldown boundary to allocate a server, and for the next dispatch loop.
DrainHorizon(lb) ==
    (Len(lb.requestQueue) + 1) * (lb.cooldownTime + MaxProcessTime + 1)

\* The number of runCycle calls with an empty vector after which the queue
\* of lb is empty; budget + 1 when it is not empty after budget calls.
RECURSIVE CyclesToDrain(_, _)
CyclesToDrain(lb, budget) ==
    IF lb.requestQueue = <<>> THEN 0
    ELSE IF budget = 0 THEN 1
    ELSE 1 + CyclesToDrain(RunCycle(lb, <<>>), budget - 1)

\* The number of returns of runCycle until the queue of pool P is empty, when
\* every call after the one in progress is given an empty vector.
CyclesLeft ==
    (IF lbpc = "idle" THEN 0 ELSE 1)
        + CyclesToDrain(PoolAtReturn, DrainHorizon(PoolAtReturn))

\* The requests the sendRequest calls of pool P were given in the runCycle
\* call that began at pool clock c.
SentInCycle(c) ==
    LET InCycle(e) == e.cycle = c
        sent == SelectSeq(dispatched["P"], InCycle)
    IN  [k \in 1..Len(sent) |-> sent[k].request]

\* C37: queue drain. With positive thresholds, cooldownTime >= 1 and every
\* processing time >= 1, from every reachable state of a pool (without
\* servers, with every server busy, in the middle of a call) a bounded
\* number of runCycle calls with empty vectors empties the queue, and that
\* number is 0 exactly when the queue is empty between two calls. Every
\* step of a call leads to the pool a whole runCycle makes of the pool and
\* vector the call began with, so the return of a call with an empty vector
\* lowers the number by one. Such a call takes requests only from the front
\* of the queue, each one in a sendRequest call that returns true.
C37_QueueDrains ==
    LET lb == loadBalancer["P"]
        began == tickStart.pools["P"]
    IN  /\ lb.minThreshold > 0
        /\ lb.maxThreshold > 0
        /\ lb.cooldownTime >= 1
        /\ \A i \in 1..Len(lb.requestQueue) : lb.requestQueue[i].processTime >= 1
        /\ CyclesLeft \in 0..DrainHorizon(PoolAtReturn)
        /\ CyclesLeft = 0 <=> (lbpc = "idle" /\ lb.requestQueue = <<>>)
        /\ \A k \in 1..Len(dispatched["P"]) : dispatched["P"][k].ret
        /\ tickStart # NoTick
              => /\ PoolAtReturn = RunCycle(began, tickStart.vecs["P"])
                 /\ (lbpc = "idle" /\ tickStart.vecs["P"] = <<>>)
                       => /\ began.requestQueue
                                = SentInCycle(began.clockTime) \o lb.requestQueue
                          /\ began.requestQueue # <<>>
                                => CyclesLeft
                                     = CyclesToDrain(began, DrainHorizon(began)) - 1

\* A pool constructed without servers and with a queue of DrainQueue
\* requests, given two more requests in its first call, has an empty queue
\* between two calls, every one of the requests assigned (some in the call
\* that began at clock 1), and every server it has is busy.
C37_Witness ==
    /\ lbpc = "idle"
    /\ loadBalancer["P"].requestQueue = <<>>
    /\ Len(handed["P"]) = 2
    /\ Assigned("P") = DrainQueue + 2
    /\ \E k \in 1..Len(dispatched["P"]) : dispatched["P"][k].cycle = 1
    /\ loadBalancer["P"].webServers # <<>>
    /\ BusyServers(loadBalancer["P"].webServers) = loadBalancer["P"].webServers

\* A number of runCycle calls in which a pool whose queue stays empty has
\* lost every server: the busy servers are ready after at most
\* MaxProcessTime calls, then each cooldown boundary removes one.
ScaleDownHorizon(lb) ==
    MaxProcessTime + (Len(lb.webServers) + 1) * lb.cooldownTime

\* The number of runCycle calls with an empty vector after which lb has no
\* server; budget + 1 when it has one after budget calls.
RECURSIVE CyclesToZero(_, _)
CyclesToZero(lb, budget) ==
    IF lb.webServers = <<>> THEN 0
    ELSE IF budget = 0 THEN 1
    ELSE 1 + CyclesToZero(RunCycle(lb, <<>>), budget - 1)

\* C38: scale to zero. With minThreshold >= 1, a runCycle call that begins
\* with an empty queue and is given an empty vector removes exactly one
\* server, the first ready one, when its clock is at a cooldown boundary and
\* a server is ready at the auto-scaling block, and removes none otherwise;
\* a pool without servers keeps none in such a call; and from every state
\* whose queue is empty a bounded number of such calls leaves the pool
\* without servers. A call on a pool without servers that has or is given
\* requests hands none out, keeps them queued, and ends with one server,
\* whose id is the clock, at a cooldown boundary and with none otherwise.
C38_ScaleToZero ==
    LET lb    == loadBalancer["P"]
        began == tickStart.pools["P"]
        vec   == tickStart.vecs["P"]
        upd   == UpdateAll(began.webServers)
    IN  /\ lb.minThreshold >= 1
        /\ PoolAtReturn.requestQueue = <<>>
              => CyclesToZero(PoolAtReturn, ScaleDownHorizon(PoolAtReturn))
                    <= ScaleDownHorizon(PoolAtReturn)
        /\ (lbpc = "idle" /\ tickStart # NoTick)
              => /\ (began.requestQueue = <<>> /\ vec = <<>>)
                       => /\ lb.requestQueue = <<>>
                          /\ lb.webServers =
                                IF AtCooldownBoundary(began)
                                     /\ FirstReady(upd, 1) # 0
                                THEN EraseAt(upd, FirstReady(upd, 1))
                                ELSE upd
                          /\ began.webServers = <<>> => lb.webServers = <<>>
                 /\ (began.webServers = <<>>
                        /\ (began.requestQueue # <<>> \/ vec # <<>>))
                       => /\ SentInCycle(began.clockTime) = <<>>
                          /\ lb.requestQueue =
                                EnqueueLoop([queue |-> began.requestQueue,
                                             vec |-> vec]).queue
                          /\ Len(lb.requestQueue)
                                = Len(began.requestQueue) + Len(vec)
                          /\ lb.webServers =
                                IF AtCooldownBoundary(began)
                                THEN <<NewWebServer(began.clockTime)>>
                                ELSE <<>>

\* A pool with cooldownTime 2 that never had a request lost its last
\* server, a ready one, in the call at clock 2, the cooldown boundary after
\* the one at clock 0, and has none now.
C38_Witness ==
    /\ lbpc = "idle"
    /\ loadBalancer["P"].cooldownTime = 2
    /\ loadBalancer["P"].clockTime = 3
    /\ loadBalancer["P"].webServers = <<>>
    /\ loadBalancer["P"].requestQueue = <<>>
    /\ tickStart # NoTick
    /\ Len(tickStart.pools["P"].webServers) = 1
    /\ tickStart.vecs["P"] = <<>>
    /\ handed["P"] = <<>>
    /\ dispatched["P"] = <<>>

\* Destination address, processing time and job type a request of a burst
\* can have besides those of BurstOf.
OtherFields ==
    {[IPout |-> DestIp, processTime |-> MaxProcessTime, jobType |-> "S"],
     [IPout |-> SrcPrivate, processTime |-> 1, jobType |-> "P"],
     [IPout |-> SrcA, processTime |-> MaxProcessTime + 1, jobType |-> "S"]}

\* The bursts that agree with requests on the source address at every
\* position and take the other fields of each position from OtherFields.
SameSources(requests) ==
    {[i \in 1..Len(requests) |->
         [requests[i] EXCEPT !.IPout = f[i].IPout,
                             !.processTime = f[i].processTime,
                             !.jobType = f[i].jobType]] :
       f \in [1..Len(requests) -> OtherFields]}

\* The positions, in the vector given to filterRequests, of the requests
\* of the vector it returned.
AdmittedPositions(ret) == [k \in 1..Len(ret) |-> ret[k].uid.idx]

\* C39: the filter decides on source addresses only. In every
\* filterRequests call, on whatever state the calls before left, a vector
\* that has the same source address at every position and other destination
\* addresses, processing times and job types is admitted and dropped at the
\* same positions, its admitted requests returned as they were given, and
\* leaves the same ipRequestCount, autoBlockedIps and totalBlocked; so two
\* runs given such vectors at the same ticks stay in step.
C39_SourceOnly ==
    [][(pc = "window" /\ clockTime' = clockTime + 1) =>
          \A twin \in SameSources(lastCall'.requests) :
             LET r == FilterRequests(firewall, twin, clockTime)
             IN  /\ AdmittedPositions(r.allowed)
                       = AdmittedPositions(lastCall'.ret)
                 /\ \A k \in 1..Len(r.allowed) :
                       r.allowed[k] = twin[r.allowed[k].uid.idx]
                 /\ r.fw.ipRequestCount = firewall'.ipRequestCount
                 /\ r.fw.autoBlockedIps = firewall'.autoBlockedIps
                 /\ r.fw.totalBlocked = firewall'.totalBlocked]_vars

\* With rate limit 1 and a window of 2 ticks: the call at tick 1, on the
\* counts the call at tick 0 left, was given three requests, dropped the one
\* of the matched source and the one that auto-blocked SrcA, and admitted
\* the third.
C39_Witness ==
    /\ firewall.dosRateLimit = 1
    /\ firewall.dosWindowSize = 2
    /\ lastCall.op = "filterRequests"
    /\ lastCall.clock = 1
    /\ Len(lastCall.requests) = 3
    /\ AdmittedPositions(lastCall.ret) = <<3>>
    /\ firewall.autoBlockedIps = <<SrcA>>
    /\ firewall.totalBlocked >= 2
====
